---- MODULE Spec2Model ----
(***************************************************************************)
(* Model of the score-certificate PDF generator: the record validator      *)
(* (pdf_generator.validate_data, main.validate_input), the table validator *)
(* (utils.file_processor.validate_dataframe and utils.validate_dataframe), *)
(* the single-record paths (pdf_generator.create_pdf,                      *)
(* main.create_single_pdf), the batch path (main.create_bulk_pdf), the     *)
(* template renderer (pdf_generator.generator.generate_pdf) and the        *)
(* encoding detector (utils.file_processor.detect_encoding and             *)
(* utils.detect_encoding).                                                 *)
(*                                                                         *)
(* Python values are records [t, n, s]: t is the Python type, n the number *)
(* (a float holds its value in tenths), s the text as a sequence of        *)
(* characters.                                                             *)
(***************************************************************************)
EXTENDS Integers, Sequences, FiniteSets, TLC

VARIABLES
    data,           \* the record given to the single-record operations
    df,             \* the uploaded table (pandas DataFrame)
    template_type,  \* st.session_state.template_type
    pc,             \* position of the operation in progress
    result,         \* outcome of the last validator / single-record operation
    calls,          \* inputs handed to generate_pdf, in call order
    st_errors,      \* messages shown with st.error
    progress,       \* value shown by the progress bar: <<num, den>>
    i,              \* index of the row the batch loop is at
    pdfs,           \* main.create_bulk_pdf: list of (pdf_path, filename)
    temp_dir,       \* the TemporaryDirectory: [exists, files, outside]
    download,       \* what st.download_button offers
    render,         \* the last run of generate_pdf: [assets, markup]
    file_obj,       \* the stream given to detect_encoding: [guess, pos, size]
    generator_py    \* what importing pdf_generator/generator.py does

vars == <<data, df, template_type, pc, result, calls, st_errors, progress,
          i, pdfs, temp_dir, download, render, file_obj, generator_py>>

----------------------------------------------------------------------------
(* Python values *)

PyInt(k)   == [t |-> "int",   n |-> k, s |-> <<>>]
PyFloat(k) == [t |-> "float", n |-> k, s |-> <<>>]   \* the value k / 10
PyStr(str) == [t |-> "str",   n |-> 0, s |-> str]
NaN        == [t |-> "nan",   n |-> 0, s |-> <<>>]   \* float("nan")
PyNone     == [t |-> "none",  n |-> 0, s |-> <<>>]
Missing    == [t |-> "missing", n |-> 0, s |-> <<>>] \* key / column absent

DigitChar(k) ==
    CASE k = 0 -> "0" [] k = 1 -> "1" [] k = 2 -> "2" [] k = 3 -> "3"
      [] k = 4 -> "4" [] k = 5 -> "5" [] k = 6 -> "6" [] k = 7 -> "7"
      [] k = 8 -> "8" [] k = 9 -> "9"

RECURSIVE NatToStr(_)
NatToStr(k) ==
    IF k < 10 THEN <<DigitChar(k)>>
    ELSE NatToStr(k \div 10) \o <<DigitChar(k % 10)>>

Abs(k) == IF k < 0 THEN -k ELSE k

\* str(v), the text an f-string puts for v.
PyFormat(v) ==
    CASE v.t = "str"   -> v.s
      [] v.t = "int"   -> (IF v.n < 0 THEN <<"-">> ELSE <<>>) \o NatToStr(Abs(v.n))
      [] v.t = "float" -> (IF v.n < 0 THEN <<"-">> ELSE <<>>)
                          \o NatToStr(Abs(v.n) \div 10) \o <<".">>
                          \o NatToStr(Abs(v.n) % 10)
      [] v.t = "nan"   -> <<"n", "a", "n">>
      [] OTHER         -> <<"N", "o", "n", "e">>

\* bool(v): None, "", 0 and 0.0 are falsy; NaN is truthy.
Truthy(v) ==
    CASE v.t = "int"   -> v.n # 0
      [] v.t = "float" -> v.n # 0
      [] v.t = "str"   -> v.s # <<>>
      [] v.t = "nan"   -> TRUE
      [] OTHER         -> FALSE

\* ord() of a kanji of this model, each written by a reading; -1 for any
\* other string.
KanjiOrd(c) ==
    CASE c = "koku" -> 22269 [] c = "go" -> 35486 [] c = "su" -> 25968
      [] c = "gaku" -> 23398 [] c = "sha" -> 31038 [] c = "kai" -> 20250
      [] c = "ri" -> 29702 [] c = "ka" -> 31185 [] c = "ei" -> 33521
      [] c = "gi" -> 25216 [] c = "jutsu" -> 34899 [] c = "ie" -> 23478
      [] c = "tei" -> 24237 [] c = "on" -> 38899 [] c = "raku" -> 27005
      [] c = "ho" -> 20445 [] c = "ken" -> 20581 [] c = "tai" -> 20307
      [] c = "iku" -> 32946 [] c = "bi" -> 32654 [] c = "ten" -> 28857
      [] c = "chu" -> 20013 [] c = "yama" -> 23665 [] c = "sei" -> 25104
      [] c = "seki" -> 32318 [] c = "hyo" -> 34920 [] c = "sho" -> 23567
      [] OTHER -> -1

HexDigits ==
    <<"0", "1", "2", "3", "4", "5", "6", "7", "8", "9", "a", "b", "c", "d",
      "e", "f">>

\* The number a string of hex digits writes.
RECURSIVE HexVal(_)
HexVal(hex) ==
    IF Len(hex) = 0 THEN 0
    ELSE 16 * HexVal(SubSeq(hex, 1, Len(hex) - 1))
         + (CHOOSE k \in 0..15 :
               HexDigits[k + 1] = SubSeq(hex, Len(hex), Len(hex)))

\* ord(c) of a character written by its code point, "x" or "u" and hex
\* digits ("x1c", "u3000", "u1d7ce"), or of a kanji; -1 for an ASCII
\* character and for a string that stands for a run of text.
CodePoint(c) ==
    IF /\ Len(c) > 1
       /\ SubSeq(c, 1, 1) \in {"x", "u"}
       /\ \A k \in 2..Len(c) : \E h \in 1..16 : HexDigits[h] = SubSeq(c, k, k)
    THEN HexVal(SubSeq(c, 2, Len(c)))
    ELSE KanjiOrd(c)

\* The ASCII digits, the only ones pandas reads in a cell.
AsciiDigits == {"0", "1", "2", "3", "4", "5", "6", "7", "8", "9"}

\* ord() of the digit 0 of every script of Unicode above ASCII (category
\* Nd, Unicode 14); the nine characters after each are its digits 1 to 9.
DigitZeros ==
    {1632, 1776, 1984, 2406, 2534, 2662, 2790, 2918, 3046, 3174, 3302, 3430,
     3558, 3664, 3792, 3872, 4160, 4240, 6112, 6160, 6470, 6608, 6784, 6800,
     6992, 7088, 7232, 7248, 42528, 43216, 43264, 43472, 43504, 43600, 44016,
     65296, 66720, 68912, 69734, 69872, 69942, 70096, 70384, 70736, 70864,
     71248, 71360, 71472, 71904, 72016, 72784, 73040, 73120, 92768, 92864,
     93008, 120782, 120792, 120802, 120812, 120822, 123200, 123632, 125264,
     130032}

\* c is a decimal digit as int() reads one: an ASCII digit or a decimal
\* digit of another script (Arabic-Indic, Devanagari, fullwidth, ...).
IsDigit(c) ==
    \/ c \in AsciiDigits
    \/ \E z \in DigitZeros : CodePoint(c) \in z..(z + 9)

\* The value of a decimal digit.
DigitVal(c) ==
    IF c \in AsciiDigits THEN CHOOSE k \in 0..9 : DigitChar(k) = c
    ELSE CHOOSE v \in 0..9 : \E z \in DigitZeros : CodePoint(c) = z + v

\* The characters str.isspace() holds of: space, tab, newline, return,
\* vertical tab, form feed, the separators FS GS RS US, NEL, NBSP and the
\* Unicode spaces (U+3000 among them).
Whitespace ==
    {" ", "\t", "\n", "\r", "x0b", "\f", "x1c", "x1d", "x1e", "x1f", "x85",
     "xa0", "u1680", "u2000", "u2001", "u2002", "u2003", "u2004", "u2005",
     "u2006", "u2007", "u2008", "u2009", "u200a", "u2028", "u2029", "u202f",
     "u205f", "u3000"}

\* What int() skips around a literal: its parser skips the C isspace
\* characters (space, \t, \n, \v, \f, \r) and reads every space above ASCII
\* as a space; the separators U+001C..U+001F stay and spoil the literal.
IntSpace == Whitespace \ {"x1c", "x1d", "x1e", "x1f"}

RECURSIVE LStripOf(_, _)
LStripOf(str, chars) ==
    IF str # <<>> /\ Head(str) \in chars THEN LStripOf(Tail(str), chars) ELSE str

RECURSIVE RStripOf(_, _)
RStripOf(str, chars) ==
    IF str # <<>> /\ str[Len(str)] \in chars
    THEN RStripOf(SubSeq(str, 1, Len(str) - 1), chars) ELSE str

\* str.strip()
Strip(str) == RStripOf(LStripOf(str, Whitespace), Whitespace)

RECURSIVE DigitsValue(_)
DigitsValue(str) ==
    IF str = <<>> THEN 0
    ELSE 10 * DigitsValue(SubSeq(str, 1, Len(str) - 1)) + DigitVal(str[Len(str)])

\* The text is ASCII digits only.
AllDigits(str) == str # <<>> /\ \A k \in 1..Len(str) : str[k] \in AsciiDigits

\* The digits of an integer literal as int() reads it: decimal digits with
\* single underscores between them.
IntLiteral(str) ==
    /\ str # <<>>
    /\ \A k \in 1..Len(str) :
          \/ IsDigit(str[k])
          \/ /\ str[k] = "_"
             /\ 1 < k /\ k < Len(str)
             /\ IsDigit(str[k - 1]) /\ IsDigit(str[k + 1])

RECURSIVE WithoutUnderscores(_)
WithoutUnderscores(str) ==
    IF str = <<>> THEN <<>>
    ELSE IF Head(str) = "_" THEN WithoutUnderscores(Tail(str))
    ELSE <<Head(str)>> \o WithoutUnderscores(Tail(str))

\* int(float): truncation toward zero of a value held in tenths.
Trunc(k) == IF k >= 0 THEN k \div 10 ELSE -((-k) \div 10)

\* int(v): [ok, val, exc].  A str is stripped of the spaces int() skips,
\* takes an optional sign and needs an integer literal; a float is
\* truncated; NaN raises ValueError, None TypeError.
PyIntOf(v) ==
    CASE v.t = "int"   -> [ok |-> TRUE, val |-> v.n, exc |-> ""]
      [] v.t = "float" -> [ok |-> TRUE, val |-> Trunc(v.n), exc |-> ""]
      [] v.t = "nan"   -> [ok |-> FALSE, val |-> 0, exc |-> "ValueError"]
      [] v.t = "str"   ->
            LET b == RStripOf(LStripOf(v.s, IntSpace), IntSpace)
                signed == b # <<>> /\ Head(b) \in {"+", "-"}
                d == IF signed THEN Tail(b) ELSE b
            IN  IF IntLiteral(d)
                THEN [ok |-> TRUE,
                      val |-> IF signed /\ Head(b) = "-"
                              THEN -DigitsValue(WithoutUnderscores(d))
                              ELSE DigitsValue(WithoutUnderscores(d)),
                      exc |-> ""]
                ELSE [ok |-> FALSE, val |-> 0, exc |-> "ValueError"]
      [] OTHER         -> [ok |-> FALSE, val |-> 0, exc |-> "TypeError"]

----------------------------------------------------------------------------
(* Constants of the program *)

ScoreMin == 0
ScoreMax == 100

REQUIRED_COLUMNS ==
    <<"subject", "test_name", "score", "sc_year", "last_name", "first_name">>

RequiredSet == {REQUIRED_COLUMNS[k] : k \in 1..Len(REQUIRED_COLUMNS)}

\* The eight subject names, two or four kanji each.
VALID_SUBJECTS ==
    {<<"koku", "go">>, <<"su", "gaku">>, <<"sha", "kai">>, <<"ri", "ka">>, <<"ei",
                                                                             "go">>,
     <<"gi", "jutsu", "ie", "tei">>, <<"on", "raku">>, <<"ho", "ken", "tai",
                                                         "iku">>}

\* Messages: msg is the message template, exc the text of a wrapped
\* exception, cols the column or field names and vals the values it shows.
Msg(m, e, c, v) == [msg |-> m, exc |-> e, cols |-> c, vals |-> v]

NoError == Msg("None", "", {}, {})

\* No table: nothing was uploaded, or no table was returned.
NoTable == [columns |-> {}, rows |-> <<>>]

\* A numeric value within the score range, as Python's chained comparison
\* 0 <= v <= 100 decides it for an int or a float.
InScoreRange(v) ==
    CASE v.t = "int"   -> ScoreMin <= v.n /\ v.n <= ScoreMax
      [] v.t = "float" -> ScoreMin * 10 <= v.n /\ v.n <= ScoreMax * 10
      [] OTHER         -> FALSE

----------------------------------------------------------------------------
(* Record validator: pdf_generator.validate_data *)

\* The first required field that is absent or falsy, 0 when there is none.
FirstBadField(d) ==
    LET bad == {k \in 1..Len(REQUIRED_COLUMNS) :
                    \/ d[REQUIRED_COLUMNS[k]] = Missing
                    \/ ~Truthy(d[REQUIRED_COLUMNS[k]])}
    IN  IF bad = {} THEN 0 ELSE CHOOSE k \in bad : \A m \in bad : k <= m

IsValidSubject(v) == v.t = "str" /\ v.s \in VALID_SUBJECTS

\* try: score = int(data["score"]); range test; except ValueError.  Any
\* other exception of int() leaves the function: the message "raises"
\* stands for it, exc naming the exception.
ScoreCheck(v) ==
    LET c == PyIntOf(v)
    IN  IF ~c.ok /\ c.exc # "ValueError"
        THEN Msg("raises", c.exc, {"score"}, {})
        ELSE IF ~c.ok THEN Msg("score_must_be_integer", "", {"score"}, {})
        ELSE IF ~(ScoreMin <= c.val /\ c.val <= ScoreMax)
             THEN Msg("score_out_of_range", "", {"score"}, {})
             ELSE NoError

\* The mutant of validate_data: the subject is tested before the fields.
validate_data_subject_first(d) ==
    LET k == FirstBadField(d)
    IN  IF d["subject"] # Missing /\ ~IsValidSubject(d["subject"])
        THEN Msg("invalid_subject", "", {}, {d["subject"]})
        ELSE IF k # 0
        THEN IF d[REQUIRED_COLUMNS[k]] = Missing
             THEN Msg("missing_required_field", "", {REQUIRED_COLUMNS[k]}, {})
             ELSE Msg("field_is_empty", "", {REQUIRED_COLUMNS[k]}, {})
        ELSE ScoreCheck(d["score"])

validate_data(d) ==
    LET k == FirstBadField(d)
    IN  IF k # 0
        THEN IF d[REQUIRED_COLUMNS[k]] = Missing
             THEN Msg("missing_required_field", "", {REQUIRED_COLUMNS[k]}, {})
             ELSE Msg("field_is_empty", "", {REQUIRED_COLUMNS[k]}, {})
        ELSE IF ~IsValidSubject(d["subject"])
        THEN Msg("invalid_subject", "", {}, {d["subject"]})
        ELSE ScoreCheck(d["score"])

----------------------------------------------------------------------------
(* Form validator: main.validate_input *)

validate_input(values) ==
    (IF ~Truthy(values["last_name"])
     THEN <<Msg("enter_last_name", "", {"last_name"}, {})>> ELSE <<>>)
    \o (IF ~Truthy(values["first_name"])
        THEN <<Msg("enter_first_name", "", {"first_name"}, {})>> ELSE <<>>)
    \o (IF ~InScoreRange(values["score"])
        THEN <<Msg("score_out_of_range", "", {"score"}, {})>> ELSE <<>>)

----------------------------------------------------------------------------
(* Text.  A text is a sequence of characters, one string each: an ASCII    *)
(* character is written as itself, a kanji by a reading ("koku", "go"),    *)
(* any other character by its code point ("u3000").  A few strings stand   *)
(* for a run of text the program supplies or is given whole and never      *)
(* looks into: the CSS blocks and the document shell of generator.py, the  *)
(* Base64 text of an image, a date, the name of the temporary directory.   *)

\* pat stands in text at position k.
StandsAt(text, k, pat) ==
    /\ k + Len(pat) - 1 <= Len(text)
    /\ SubSeq(text, k, k + Len(pat) - 1) = pat

\* str.find(pat) + 1: the first position of pat in text, 0 when it has none.
Find(text, pat) ==
    LET at == {k \in 1..(Len(text) - Len(pat) + 1) :
                  /\ pat = <<>> \/ text[k] = pat[1]
                  /\ StandsAt(text, k, pat)}
    IN  IF at = {} THEN 0 ELSE CHOOSE k \in at : \A m \in at : k <= m

\* The first position from k on of a character of chars, 0 when none.
RECURSIVE FirstOf(_, _, _)
FirstOf(text, k, chars) ==
    IF k > Len(text) THEN 0
    ELSE IF text[k] \in chars THEN k
    ELSE FirstOf(text, k + 1, chars)

\* The first position from k on that holds no whitespace.
RECURSIVE SkipSpaces(_, _)
SkipSpaces(text, k) ==
    IF k <= Len(text) /\ text[k] \in Whitespace THEN SkipSpaces(text, k + 1)
    ELSE k

\* str.replace(old, new): every occurrence of old, left to right, without
\* rescanning what was put in; k is the first position of old.
RECURSIVE Replace(_, _, _)
ReplaceAt(text, old, new, k) ==
    IF k = 0 THEN text
    ELSE SubSeq(text, 1, k - 1) \o new
         \o Replace(SubSeq(text, k + Len(old), Len(text)), old, new)

Replace(text, old, new) == ReplaceAt(text, old, new, Find(text, old))

\* text.split(sep)[0]
Before(text, sep) ==
    LET k == Find(text, sep)
    IN  IF k = 0 THEN text ELSE SubSeq(text, 1, k - 1)

\* The text after the first sep: [raised, text].  Without a sep the list of
\* split has one element and [1] raises IndexError.
After(text, sep) ==
    LET k == Find(text, sep)
    IN  IF k = 0 THEN [raised |-> "IndexError", text |-> <<>>]
        ELSE [raised |-> "", text |-> SubSeq(text, k + Len(sep), Len(text))]

----------------------------------------------------------------------------
(* Template renderer: generator.generate_pdf *)

BodyOpen == <<"<", "b", "o", "d", "y", ">">>

BodyClose == <<"<", "/", "b", "o", "d", "y", ">">>

\* html_content.split('<body>')[1].split('</body>')[0]: [raised, text]
BodyInterior(html) ==
    LET after == After(html, BodyOpen)
    IN  IF after.raised # "" THEN after
        ELSE [raised |-> "",
              text |-> Before(Before(after.text, BodyOpen), BodyClose)]

\* "[sc_year]{.sc_year}" and the five others
Placeholder(f) ==
    LET name == CASE f = "sc_year"    -> <<"s", "c", "_", "y", "e", "a", "r">>
                  [] f = "last_name"  -> <<"l", "a", "s", "t", "_", "n",
                                           "a", "m", "e">>
                  [] f = "first_name" -> <<"f", "i", "r", "s", "t", "_",
                                           "n", "a", "m", "e">>
                  [] f = "subject"    -> <<"s", "u", "b", "j", "e", "c", "t">>
                  [] f = "test_name"  -> <<"t", "e", "s", "t", "_", "n",
                                           "a", "m", "e">>
                  [] f = "score"      -> <<"s", "c", "o", "r", "e">>
    IN  <<"[">> \o name \o <<"]", "{", ".">> \o name \o <<"}">>

SubjectSpan == <<"<", "s", "p", "a", "n", " ", "c", "l", "a", "s", "s", "=",
                 "\"", "s", "u", "b", "j", "e", "c", "t", "\"", ">">>

SpanClose == <<"<", "/", "s", "p", "a", "n", ">">>

PointPlain ==
    <<"<", "s", "p", "a", "n", " ", "c", "l", "a", "s", "s", "=", "\"", "p",
      "o", "i", "n", "t", "\"", ">", "ten", "<", "/", "s", "p", "a", "n",
      ">">>

PointUp ==
    <<"<", "s", "p", "a", "n", " ", "c", "l", "a", "s", "s", "=", "\"", "p",
      "o", "i", "n", "t", " ", "p", "o", "i", "n", "t", "-", "u", "p", "\"",
      ">", "<", "s", "p", "a", "n", " ", "c", "l", "a", "s", "s", "=", "\"",
      "t", "e", "n", "\"", ">", "ten", "<", "/", "s", "p", "a", "n", ">">>
    \o <<"<", "s", "p", "a", "n", " ", "c", "l", "a", "s", "s", "=", "\"",
         "u", "p", "\"", ">", "U", "P", "<", "/", "s", "p", "a", "n", ">",
         "<", "/", "s", "p", "a", "n", ">">>

\* templates/html/index.html: the six placeholders, the subject inside its
\* span, and the point markup, inside the body element.
HtmlTemplate ==
    <<"<", "h", "t", "m", "l", ">", "<", "h", "e", "a", "d", ">", "<", "/",
      "h", "e", "a", "d", ">">> \o BodyOpen
    \o SubjectSpan \o Placeholder("subject") \o SpanClose
    \o Placeholder("test_name") \o Placeholder("score") \o PointPlain
    \o Placeholder("sc_year") \o Placeholder("last_name")
    \o Placeholder("first_name") \o BodyClose \o <<"<", "/", "h", "t", "m",
                                                   "l", ">">>

CrestUrl == <<"u", "r", "l", "(", "\"", ".", ".", "/", "i", "m", "a", "g",
              "e", "s", "/", "c", "r", "e", "s", "t", ".", "p", "n", "g",
              "\"", ")">>

TwinkleUrl == <<"u", "r", "l", "(", "\"", ".", ".", "/", "i", "m", "a", "g",
                "e", "s", "/", "t", "w", "i", "n", "k", "l", "e", ".", "p",
                "n", "g", "\"", ")">>

\* templates/css/main.css: the background rules of .medal and .ribbon and
\* the two fixed image URLs.
CssTemplate ==
    <<".", "m", "e", "d", "a", "l", "{", "b", "a", "c", "k", "g", "r", "o",
      "u", "n", "d", ":", "u", "r", "l", "(", "\"", ".", ".", "/", "i", "m",
      "a", "g", "e", "s", "/", "m", "e", "d", "a", "l", ".", "p", "n", "g",
      "\"", ")", "}">>
    \o <<".", "r", "i", "b", "b", "o", "n", "{", "b", "a", "c", "k", "g",
         "r", "o", "u", "n", "d", ":", "u", "r", "l", "(", "\"", ".", ".",
         "/", "i", "m", "a", "g", "e", "s", "/", "r", "i", "b", "b", "o",
         "n", ".", "p", "n", "g", "\"", ")", "}">>
    \o <<".", "c", "r", "e", "s", "t", "{", "b", "a", "c", "k", "g", "r",
         "o", "u", "n", "d", ":">> \o CrestUrl \o <<"}">>
    \o <<".", "t", "w", "i", "n", "k", "l", "e", "{", "b", "a", "c", "k",
         "g", "r", "o", "u", "n", "d", ":">> \o TwinkleUrl \o <<"}">>

\* The CSS that generator.py adds, one token for each run: additional_css
\* (lines 77-129), the ribbon and name styles (213-289), the style of a
\* subject of two lines (293-311) or of one (313-326).  Each holds a "}";
\* none holds a quote, "url(", "background:" or the selectors .medal and
\* .ribbon before the patterns are applied.
CssBlocks ==
    {"additional_css", "ribbon_css", "subject_css_pre_line",
     "subject_css_nowrap"}

ScoreUpCss == <<"additional_css">>

IsScoreUp(d) == d["template_type"] = PyStr(<<"tensu_up_keiji">>)

\* if data.get("template_type") == score-up: the CSS fragment is appended
\* and the point markup rewritten.
ApplyTemplateType(d, css, html) ==
    IF IsScoreUp(d)
    THEN [css |-> css \o ScoreUpCss, html |-> Replace(html, PointPlain, PointUp)]
    ELSE [css |-> css, html |-> html]

SubstitutionOrder ==
    <<"sc_year", "last_name", "first_name", "subject", "test_name", "score">>

\* The six html_content.replace(placeholder, str(data[field])) from the
\* k-th on, each applied to the result of the one before.
RECURSIVE SubstituteFrom(_, _, _)
SubstituteFrom(html, d, k) ==
    IF k > Len(SubstitutionOrder) THEN html
    ELSE SubstituteFrom(Replace(html, Placeholder(SubstitutionOrder[k]),
                                PyFormat(d[SubstitutionOrder[k]])), d, k + 1)

Substitute(html, d) == SubstituteFrom(html, d, 1)

\* The image files of a subject; a file name is one token.
SUBJECT_IMAGES(sub) ==
    CASE sub = <<"koku", "go">> -> [medal |-> "n_lang1.png", ribbon |-> "n_lang2.png"]
      [] sub = <<"su", "gaku">> -> [medal |-> "math1.png", ribbon |-> "math2.png"]
      [] sub = <<"sha", "kai">> -> [medal |-> "social1.png", ribbon |-> "social2.png"]
      [] sub = <<"ri", "ka">> -> [medal |-> "science1.png", ribbon |-> "science2.png"]
      [] sub = <<"ei", "go">> -> [medal |-> "eng1.png", ribbon |-> "eng2.png"]
      [] sub = <<"gi", "jutsu", "ie", "tei">> ->
            [medal |-> "tech1.png", ribbon |-> "tech2.png"]
      [] sub = <<"on", "raku">> -> [medal |-> "music1.png", ribbon |-> "music2.png"]
      [] sub = <<"ho", "ken", "tai", "iku">> ->
            [medal |-> "sport1.png", ribbon |-> "sport2.png"]

\* SUBJECT_IMAGES.get(subject, SUBJECT_IMAGES[kokugo])
SubjectImages(v) ==
    IF IsValidSubject(v) THEN SUBJECT_IMAGES(v.s)
    ELSE SUBJECT_IMAGES(<<"koku", "go">>)

MULTILINE_SUBJECTS(sub) ==
    CASE sub = <<"gi", "jutsu", "ie", "tei">> -> <<"gi", "jutsu", "\n",
                                                   "ie", "tei">>
      [] sub = <<"ho", "ken", "tai", "iku">> -> <<"ho", "ken", "\n", "tai",
                                                  "iku">>

IsMultiline(v) ==
    v.t = "str" /\ v.s \in {<<"gi", "jutsu", "ie", "tei">>, <<"ho", "ken",
                                                              "tai", "iku">>}

\* The Base64 text of the image file, two tokens; an exception of open() or
\* read() is caught, a warning is printed and "" is returned.
encode_image_to_base64(image, readable) ==
    IF readable THEN <<"base64:", image>> ELSE <<>>

\* url("data:image/png;base64,...")
DataUrl(b64) ==
    <<"u", "r", "l", "(", "\"", "d", "a", "t", "a", ":", "i", "m", "a", "g",
      "e", "/", "p", "n", "g", ";", "b", "a", "s", "e", "6", "4", ",">>
    \o b64 \o <<"\"", ")">>

BackgroundKey == <<"b", "a", "c", "k", "g", "r", "o", "u", "n", "d", ":">>

UrlOpen == <<"u", "r", "l", "(", "\"">>

NoMatch == [ok |-> FALSE, url |-> 0, rest |-> 0, end |-> 0]

\* background:\s*)url\("[^"]*"\)([^}]*}) read from position p:
\* [ok, url, rest, end], url where "url(" stands, rest where the second
\* group begins, end where its "}" stands.  [^}] does not match a "}", nor
\* a CSS block, which holds one.
UrlRule(text, p) ==
    LET u == SkipSpaces(text, p + Len(BackgroundKey))
        q == FirstOf(text, u + Len(UrlOpen), {"\""})
        end == FirstOf(text, q + 2, {"}"} \cup CssBlocks)
    IN  IF /\ StandsAt(text, p, BackgroundKey)
           /\ StandsAt(text, u, UrlOpen)
           /\ q # 0 /\ q < Len(text) /\ text[q + 1] = ")"
           /\ end # 0
        THEN [ok |-> TRUE, url |-> u, rest |-> q + 2, end |-> end]
        ELSE NoMatch

\* The match of (selector\s*{[^}]*background:\s*)url\("[^"]*"\)([^}]*})
\* from its "{" at open: [^}]* is greedy and takes the last "background:"
\* before the first "}" from which the rest matches.
RuleFrom(text, open) ==
    LET at == {p \in (open + 1)..(FirstOf(text, open + 1,
                                         {"}"} \cup CssBlocks) - 1) :
                  text[p] = BackgroundKey[1] /\ UrlRule(text, p).ok}
    IN  IF open > Len(text) \/ text[open] # "{" \/ at = {} THEN NoMatch
        ELSE UrlRule(text, CHOOSE p \in at : \A m \in at : m <= p)

RuleAt(text, selector, s) ==
    IF StandsAt(text, s, selector)
    THEN RuleFrom(text, SkipSpaces(text, s + Len(selector)))
    ELSE NoMatch

\* The leftmost match of the pattern in text.
FirstRule(text, selector) ==
    LET at == {s \in 1..Len(text) :
                  text[s] = selector[1] /\ RuleAt(text, selector, s).ok}
    IN  IF at = {} THEN NoMatch
        ELSE RuleAt(text, selector, CHOOSE s \in at : \A m \in at : s <= m)

\* re.sub of the pattern by \1 url \2: in every match, left to right, the
\* url(...) is replaced; m is the leftmost match.
RECURSIVE ReSubBackground(_, _, _)
ReSubMatch(css, selector, url, m) ==
    IF ~m.ok THEN css
    ELSE SubSeq(css, 1, m.url - 1) \o url \o SubSeq(css, m.rest, m.end)
         \o ReSubBackground(SubSeq(css, m.end + 1, Len(css)), selector, url)

ReSubBackground(css, selector, url) ==
    ReSubMatch(css, selector, url, FirstRule(css, selector))

\* What a run of generate_pdf meets: every asset in place and the renderer
\* working, or one file missing or unreadable, or the renderer failing.
RenderOutcomes ==
    {"ok", "css_missing", "html_missing", "renderer_error"}
    \cup {"medal_unreadable", "ribbon_unreadable", "crest_unreadable",
          "twinkle_unreadable"}

\* generator.py as it stands repeats "browser = await p.chromium.launch("
\* on line 363: the file is a SyntaxError and nothing that imports it
\* loads.  "compiles" is the file without the repeated line.
GeneratorBuilds == {"syntax_error", "compiles"}

\* What a call of generate_pdf can meet under a build of generator.py.
BuildOutcomes(build) ==
    IF build = "syntax_error" THEN {"syntax_error"} ELSE RenderOutcomes

Readable(outcome, kind) ==
    ~( \/ outcome = "medal_unreadable" /\ kind = "medal"
       \/ outcome = "ribbon_unreadable" /\ kind = "ribbon"
       \/ outcome = "crest_unreadable" /\ kind = "crest"
       \/ outcome = "twinkle_unreadable" /\ kind = "twinkle" )

\* The four images of the record, encoded.
ImageFiles(d, outcome) ==
    [kind \in {"medal", "ribbon", "crest", "twinkle"} |->
        encode_image_to_base64(
            CASE kind = "medal"  -> SubjectImages(d["subject"]).medal
              [] kind = "ribbon" -> SubjectImages(d["subject"]).ribbon
              [] kind = "crest"  -> "crest.png"
              [] OTHER           -> "twinkle.png",
            Readable(outcome, kind))]

\* The style sheet: the image URLs replaced, the ribbon and name styles
\* and the style of the subject appended.
CssContent(css, d, image_files) ==
    Replace(
        Replace(
            ReSubBackground(
                ReSubBackground(css, <<".", "m", "e", "d", "a", "l">>,
                                DataUrl(image_files["medal"])),
                <<".", "r", "i", "b", "b", "o", "n">>, DataUrl(image_files["ribbon"])),
            CrestUrl, DataUrl(image_files["crest"])),
        TwinkleUrl, DataUrl(image_files["twinkle"]))
    \o <<"ribbon_css">>
    \o (IF IsMultiline(d["subject"]) THEN <<"subject_css_pre_line">>
        ELSE <<"subject_css_nowrap">>)

\* The subject of two lines is rewritten inside its span.
MultilineSubject(html, d) ==
    IF IsMultiline(d["subject"])
    THEN Replace(html,
                 SubjectSpan \o d["subject"].s \o SpanClose,
                 SubjectSpan \o MULTILINE_SUBJECTS(d["subject"].s)
                     \o SpanClose)
    ELSE html

\* html_with_css: the document shell (one token up to the style sheet, one
\* from the page rule to <body>, one for the end) around the style sheet
\* and the interior of the body element: [raised, html].
HtmlWithCss(css, body) ==
    IF body.raised # "" THEN [raised |-> body.raised, html |-> <<>>]
    ELSE [raised |-> "",
          html |-> <<"html_head">> \o css \o <<"html_page">> \o body.text
                   \o <<"html_end">>]

\* The final markup of record d: [raised, html].
FinalMarkup(d, outcome) ==
    LET typed == ApplyTemplateType(d, CssTemplate, HtmlTemplate)
    IN  HtmlWithCss(CssContent(typed.css, d, ImageFiles(d, outcome)),
                    BodyInterior(MultilineSubject(Substitute(typed.html, d), d)))

\* generate_pdf(data): [ok, pdf, html].  A module that does not load, a
\* template that cannot be opened or has no body and a failure of the
\* renderer raise; the PDF painted from the markup of a record is named by
\* that record.
generate_pdf(d, outcome) ==
    IF outcome \in {"syntax_error", "css_missing", "html_missing"}
    THEN [ok |-> FALSE, pdf |-> <<>>, html |-> <<>>]
    ELSE LET Painted(m) ==
                 IF m.raised # "" THEN [ok |-> FALSE, pdf |-> <<>>, html |-> <<>>]
                 ELSE IF outcome = "renderer_error"
                 THEN [ok |-> FALSE, pdf |-> <<>>, html |-> m.html]
                 ELSE [ok |-> TRUE, pdf |-> <<d>>, html |-> m.html]
         IN  Painted(FinalMarkup(d, outcome))

\* No run of generate_pdf yet; raised names what raised in a row of the
\* batch ("generate_pdf" or "open"), "" when nothing did.
NoRender == [assets |-> "none", markup |-> <<>>, raised |-> ""]

\* The record of a run of generate_pdf that met outcome.
RenderOf(outcome, r) ==
    [assets |-> outcome, markup |-> r.html,
     raised |-> IF r.ok THEN "" ELSE "generate_pdf"]

----------------------------------------------------------------------------
(* Table validator: utils.file_processor.validate_dataframe and            *)
(* utils.validate_dataframe.  A table is [columns, rows]; a row maps every *)
(* required column name to a cell, Missing where the table has no such     *)
(* column.                                                                 *)

Column(d, col) == [k \in 1..Len(d.rows) |-> d.rows[k][col]]

\* pandas parses a str cell as a whole number or as a decimal with one
\* fractional digit (all this model writes); "" counts as a missing value.
ParseNumber(str) ==
    LET signed == str # <<>> /\ Head(str) \in {"+", "-"}
        b == IF signed THEN Tail(str) ELSE str
        neg == signed /\ Head(str) = "-"
    IN  IF str = <<>> THEN [ok |-> TRUE, v |-> NaN]
        ELSE IF AllDigits(b)
        THEN [ok |-> TRUE,
              v |-> PyInt(IF neg THEN -DigitsValue(b) ELSE DigitsValue(b))]
        ELSE IF /\ Len(b) >= 3
                /\ b[Len(b) - 1] = "."
                /\ AllDigits(SubSeq(b, 1, Len(b) - 2))
                /\ b[Len(b)] \in AsciiDigits
        THEN LET k == 10 * DigitsValue(SubSeq(b, 1, Len(b) - 2))
                      + DigitVal(b[Len(b)])
             IN  [ok |-> TRUE, v |-> PyFloat(IF neg THEN -k ELSE k)]
        ELSE [ok |-> FALSE, v |-> PyStr(str)]

\* One cell under pd.to_numeric.
CellToNumeric(v) ==
    CASE v.t = "str"  -> ParseNumber(v.s)
      [] v.t = "none" -> [ok |-> TRUE, v |-> NaN]
      [] OTHER        -> [ok |-> TRUE, v |-> v]

\* pd.to_numeric(column): [ok, col, bad].  One dtype for the column: float64
\* as soon as one value is a float or NaN, int64 otherwise.  A str that is
\* no number raises ValueError naming the first such value.
to_numeric(col) ==
    LET Cast(v, asFloat) ==
            IF asFloat /\ v.t = "int" THEN PyFloat(10 * v.n) ELSE v
        Column64(conv, bad) ==
            IF bad # {}
            THEN [ok |-> FALSE, col |-> col,
                  bad |-> col[CHOOSE k \in bad : \A m \in bad : k <= m]]
            ELSE [ok |-> TRUE,
                  col |-> [k \in DOMAIN col |->
                              Cast(conv[k].v,
                                   \E m \in DOMAIN col :
                                       conv[m].v.t \in {"float", "nan"})],
                  bad |-> NaN]
        Converted(conv) == Column64(conv, {k \in DOMAIN col : ~conv[k].ok})
    IN  Converted([k \in DOMAIN col |-> CellToNumeric(col[k])])

\* df["score"] = column
SetScore(d, col) ==
    [d EXCEPT !.rows = [k \in 1..Len(d.rows) |->
                            [d.rows[k] EXCEPT !["score"] = col[k]]]]

\* Series.isna()
IsNa(v) == v.t \in {"nan", "none"}

\* The first column of cols, in order, with a null cell; 0 when none has.
FirstNullColumn(d, cols) ==
    LET bad == {c \in 1..Len(cols) :
                    \E k \in 1..Len(d.rows) : IsNa(d.rows[k][cols[c]])}
    IN  IF bad = {} THEN 0 ELSE CHOOSE c \in bad : \A m \in bad : c <= m

\* set(df["subject"]) - set(valid_subjects)
InvalidSubjects(d) ==
    {d.rows[k]["subject"] : k \in 1..Len(d.rows)}
        \ {PyStr(sub) : sub \in VALID_SUBJECTS}

\* The subject check and its message; ", ".join raises TypeError on a value
\* that is no str, and the except clause wraps it.
SubjectCheck(d) ==
    LET invalid_subjects == InvalidSubjects(d)
    IN  IF invalid_subjects = {} THEN NoError
        ELSE IF \E v \in invalid_subjects : v.t # "str"
        THEN Msg("validation_exception", "join_expected_str", {}, {})
        ELSE Msg("invalid_subjects", "", {}, invalid_subjects)

NullCheckColumns ==
    <<"subject", "test_name", "sc_year", "last_name", "first_name">>

\* The mutant of ChecksAfterColumns: the null check runs before the score
\* check.
ChecksNullFirst(d, null_columns) ==
    LET Subjects(d2) == [err |-> SubjectCheck(d2), df |-> d2]
        Scores(num) ==
            IF ~num.ok
            THEN [err |-> Msg("validation_exception", "unable_to_parse", {},
                              {num.bad}), df |-> d]
            ELSE IF \E k \in DOMAIN num.col : ~InScoreRange(num.col[k])
            THEN [err |-> Msg("score_out_of_range", "", {"score"}, {}),
                  df |-> SetScore(d, num.col)]
            ELSE Subjects(SetScore(d, num.col))
        Nulls(c) ==
            IF c # 0
            THEN [err |-> Msg("contains_empty", "", {null_columns[c]}, {}), df |-> d]
            ELSE Scores(to_numeric(Column(d, "score")))
    IN  Nulls(FirstNullColumn(d, null_columns))

\* The try block both validators share: score coercion and range, null
\* cells of null_columns, subjects.  It returns the message and the table,
\* whose score column the coercion has replaced.
ChecksAfterColumns(d, null_columns) ==
    LET Nulls(d2, c) ==
            IF c # 0
            THEN [err |-> Msg("contains_empty", "", {null_columns[c]}, {}), df |-> d2]
            ELSE [err |-> SubjectCheck(d2), df |-> d2]
        Coerced(d2) ==
            IF \E k \in 1..Len(d2.rows) : ~InScoreRange(d2.rows[k]["score"])
            THEN [err |-> Msg("score_out_of_range", "", {"score"}, {}), df |-> d2]
            ELSE Nulls(d2, FirstNullColumn(d2, null_columns))
        Scores(num) ==
            IF ~num.ok
            THEN [err |-> Msg("validation_exception", "unable_to_parse", {},
                              {num.bad}), df |-> d]
            ELSE Coerced(SetScore(d, num.col))
    IN  Scores(to_numeric(Column(d, "score")))

\* The mutant of MissingColumns: the score column is not looked for.
MissingColumnsButScore(d, required_columns) ==
    ({required_columns[k] : k \in 1..Len(required_columns)} \ d.columns)
        \ {"score"}

\* set(required_columns) - set(df.columns)
MissingColumns(d, required_columns) ==
    {required_columns[k] : k \in 1..Len(required_columns)} \ d.columns

\* utils.file_processor.validate_dataframe(df, required_columns)
validate_dataframe(d, required_columns) ==
    LET missing_columns == MissingColumns(d, required_columns)
    IN  IF missing_columns # {}
        THEN [err |-> Msg("missing_columns", "", missing_columns, {}), df |-> d]
        ELSE ChecksAfterColumns(d, NullCheckColumns)

\* utils.validate_dataframe(df): the import of pdf_generator on its first
\* line, outside the try, raises when generator.py does not load; then the
\* module's REQUIRED_COLUMNS, and the null check over all of them.
utils_validate_dataframe(d, build) ==
    LET missing_columns == MissingColumns(d, REQUIRED_COLUMNS)
    IN  IF build = "syntax_error"
        THEN [err |-> Msg("raises", "SyntaxError", {}, {}), df |-> d]
        ELSE IF missing_columns # {}
        THEN [err |-> Msg("missing_columns", "", missing_columns, {}), df |-> d]
        ELSE ChecksAfterColumns(d, REQUIRED_COLUMNS)

----------------------------------------------------------------------------
(* File processors: utils.file_processor.process_uploaded_file and         *)
(* utils.process_file.  The table is the one the file holds; what opening  *)
(* and reading the file does is an outcome.                                *)

\* df.map(lambda x: x.strip() if isinstance(x, str) else x)
StripCells(d) ==
    [d EXCEPT !.rows =
        [k \in 1..Len(d.rows) |->
            [c \in DOMAIN d.rows[k] |->
                IF d.rows[k][c].t = "str"
                THEN PyStr(Strip(d.rows[k][c].s)) ELSE d.rows[k][c]]]]

\* pd.to_numeric(column, errors="coerce"): a cell that is no number
\* becomes NaN.
to_numeric_coerce(col) ==
    [k \in DOMAIN col |->
        IF CellToNumeric(col[k]).ok THEN CellToNumeric(col[k]).v ELSE NaN]

\* Series.astype(int): [ok, col]; NaN cannot be cast, a float is truncated.
astype_int(col) ==
    IF \E k \in DOMAIN col : col[k].t = "nan"
    THEN [ok |-> FALSE, col |-> col]
    ELSE [ok |-> TRUE,
          col |-> [k \in DOMAIN col |-> PyInt(PyIntOf(col[k]).val)]]

\* Series.astype(str) on the text columns: str() of every cell.
AsTypeStr(d, cols) ==
    [d EXCEPT !.rows =
        [k \in 1..Len(d.rows) |->
            [c \in DOMAIN d.rows[k] |->
                IF c \in cols THEN PyStr(PyFormat(d.rows[k][c]))
                ELSE d.rows[k][c]]]]

\* What opening and reading the file does in process_uploaded_file.
UploadedFileOutcomes ==
    {"ok", "unsupported_type", "encoding_error", "read_error"}

\* process_uploaded_file(uploaded_file): [raised, exc, df].  Every
\* exception leaves as an Exception carrying the message of its cause.
process_uploaded_file(d, outcome) ==
    LET stripped == StripCells(d)
        cast == astype_int(to_numeric_coerce(Column(stripped, "score")))
        absent == RequiredSet \ d.columns
    IN  IF outcome # "ok"
        THEN [raised |-> "Exception", exc |-> outcome, df |-> NoTable]
        ELSE IF "score" \in absent
        THEN [raised |-> "Exception", exc |-> "KeyError", df |-> NoTable]
        ELSE IF ~cast.ok
        THEN [raised |-> "Exception", exc |-> "IntCastingNaNError",
              df |-> NoTable]
        ELSE IF absent # {}
        THEN [raised |-> "Exception", exc |-> "KeyError", df |-> NoTable]
        ELSE [raised |-> "", exc |-> "",
              df |-> AsTypeStr(SetScore(stripped, cast.col),
                               RequiredSet \ {"score"})]

\* What the size test, the extension test and the reading do in
\* process_file.
FileOutcomes ==
    {"ok", "too_large", "unsupported_extension", "encoding_error",
     "empty_data", "read_error"}

\* The message of the FileProcessError an outcome ends in.
FileError(outcome) ==
    CASE outcome = "too_large" -> Msg("file_too_large", "", {}, {})
      [] outcome = "unsupported_extension" ->
            Msg("unsupported_file_type", "", {}, {})
      [] outcome = "encoding_error" ->
            Msg("encoding_detection_failed", "", {}, {})
      [] outcome = "empty_data" -> Msg("no_data_in_file", "", {}, {})
      [] OTHER -> Msg("file_processing_error", outcome, {}, {})

\* The end of process_file, r being what validate_dataframe gave: its
\* exception wrapped, its message raised, or the table returned.
Validated(r) ==
    IF r.err.msg = "raises"
    THEN [raised |-> "FileProcessError",
          err |-> Msg("file_processing_error", r.err.exc, {}, {}),
          df |-> NoTable]
    ELSE IF r.err # NoError
    THEN [raised |-> "FileProcessError", err |-> r.err, df |-> NoTable]
    ELSE [raised |-> "", err |-> NoError, df |-> r.df]

\* utils.process_file(file_obj, file_extension): [raised, err, df].  Every
\* exception leaves as a FileProcessError: those the function raises itself
\* and the one of detect_encoding as they are, EmptyDataError with its own
\* message, any other (the SyntaxError of validate_dataframe included)
\* wrapped.
process_file(d, outcome, build) ==
    IF outcome # "ok"
    THEN [raised |-> "FileProcessError", err |-> FileError(outcome),
          df |-> NoTable]
    ELSE Validated(utils_validate_dataframe(StripCells(d), build))

----------------------------------------------------------------------------
(* Inputs of the single-record operations *)

TemplateTypes == {"tokuten_keiji", "tensu_up_keiji"}

ScoreInputs ==
    {PyInt(-1), PyInt(0), PyInt(1), PyInt(100), PyInt(101),
     PyFloat(505), PyFloat(1005), PyFloat(-5),
     PyStr(<<"a", "b", "c">>), PyStr(<<"5", "0">>), PyStr(<<>>),
     PyStr(<<"\t", "5", "0", "\n">>), PyStr(<<"1", "_", "0">>),
     PyStr(<<"uff15", "uff10">>), PyStr(<<"x1c", "5">>),
     PyStr(<<"u096b">>), PyStr(<<"u0967", "u0966", "u0967">>),
     NaN, PyNone, Missing}

\* Mappings a caller may hand to validate_data and create_pdf: any value
\* under any key.  Among the texts are the text of a placeholder, two
\* parts of one that join ("[first_name]{.first" and "_name}"), and the
\* plain point markup of the template.
RecordInputs ==
    [subject : {PyStr(<<"koku", "go">>), PyStr(<<"bi", "jutsu">>), PyStr(<<>>), Missing},
     test_name : {PyStr(<<"t">>), PyStr(<<>>)},
     score : ScoreInputs,
     sc_year : {PyStr(<<"chu", "1">>), PyStr(<<"[", "f", "i", "r", "s", "t",
                                               "_", "n", "a", "m", "e", "]",
                                               "{", ".", "f", "i", "r", "s",
                                               "t">>)},
     last_name : {PyStr(<<"a", "b">>), PyStr(<<>>), Missing,
                  PyStr(Placeholder("first_name")),
                  PyStr(<<"_", "n", "a", "m", "e", "}">>),
                  PyStr(PointPlain)},
     first_name : {PyStr(<<"c">>), PyStr(<<>>)},
     template_type : {Missing, PyStr(<<"tokuten_keiji">>),
                      PyStr(<<"tensu_up_keiji">>)}]

\* The labels of the select box of the grade.
GRADE ==
    <<<<"sho", "1">>, <<"sho", "2">>, <<"sho", "3">>, <<"sho", "4">>,
      <<"sho", "5">>, <<"sho", "6">>, <<"chu", "1">>, <<"chu", "2">>,
      <<"chu", "3">>>>

\* What the widgets of the form of create_single_pdf can hold: a subject
\* and a grade of the select boxes, a whole number of the number input
\* (0..100), any text in the text inputs, the text of a placeholder
\* included.
FormInputs(template) ==
    [subject : {PyStr(<<"koku", "go">>), PyStr(<<"gi", "jutsu", "ie", "tei">>)},
     test_name : {PyStr(<<"t">>), PyStr(<<>>)},
     score : {PyInt(ScoreMin), PyInt(50), PyInt(ScoreMax)},
     sc_year : {PyStr(GRADE[k]) : k \in {1, 7}},
     last_name : {PyStr(<<"a", "b">>), PyStr(<<>>),
                  PyStr(Placeholder("first_name")),
                  PyStr(<<"x">> \o Placeholder("sc_year"))},
     first_name : {PyStr(<<"c">>), PyStr(<<>>)},
     template_type : {PyStr(<<template>>)}]

AllFormInputs == UNION {FormInputs(tt) : tt \in TemplateTypes}

----------------------------------------------------------------------------
(* State shared by the operations *)

NoResult == [op |-> "", errors |-> <<>>, raised |-> "", returned |-> <<>>]

NoDownload == [offered |-> FALSE, data |-> <<>>, filename |-> <<>>]

NoProgress == [shown |-> FALSE, num |-> 0, den |-> 1]

\* No directory; files are [path, content], those under the directory in
\* files, those written through its path to a place outside it in outside.
NoTempDir == [exists |-> FALSE, files |-> {}, outside |-> {}]

\* No stream in hand.
NoFile == [kind |-> "nofile", label |-> <<>>, pos |-> 0, size |-> 0,
           seekable |-> FALSE]

\* No table in hand (uploaded_file is None).
NoUpload == NoTable

Idle ==
    /\ result = NoResult
    /\ calls = <<>>
    /\ st_errors = <<>>
    /\ progress = NoProgress
    /\ i = 0
    /\ pdfs = <<>>
    /\ temp_dir = NoTempDir
    /\ download = NoDownload
    /\ render = NoRender

----------------------------------------------------------------------------
(* Single-record operations *)

InitRecord ==
    /\ Idle
    /\ generator_py \in GeneratorBuilds
    /\ file_obj = NoFile
    /\ pc = "start"
    /\ df = NoUpload
    /\ \/ template_type = "tokuten_keiji" /\ data \in RecordInputs
       \/ template_type \in TemplateTypes /\ data \in FormInputs(template_type)

\* "from .generator import generate_pdf" (pdf_generator/__init__.py line 3)
\* and "from pdf_generator.generator import ..." (main.py line 9) on a
\* generator.py that does not load: the import raises and nothing of the
\* package or of the application runs.
ImportGenerator ==
    /\ generator_py = "syntax_error"
    /\ \/ pc = "start" /\ data \in RecordInputs \cup AllFormInputs
       \/ pc = "uploaded"
    /\ result' = [op |-> "import_generator", errors |-> <<>>,
                  raised |-> "SyntaxError", returned |-> <<>>]
    /\ render' = RenderOf("syntax_error", generate_pdf(data, "syntax_error"))
    /\ pc' = "import_failed"
    /\ UNCHANGED <<generator_py, data, file_obj, df, template_type, calls, st_errors,
                   progress, i, pdfs, temp_dir, download>>

\* pdf_generator.validate_data applied to data.
ValidateData ==
    /\ pc = "start"
    /\ generator_py = "compiles"
    /\ data \in RecordInputs
    /\ \E err \in {validate_data(data)} :
           result' = [op |-> "validate_data",
                      errors |-> IF err = NoError \/ err.msg = "raises"
                                 THEN <<>> ELSE <<err>>,
                      raised |-> IF err.msg = "raises" THEN err.exc ELSE "",
                      returned |-> <<>>]
    /\ pc' = "returned"
    /\ UNCHANGED <<generator_py, data, file_obj, df, template_type, calls, render, st_errors, progress, i,
                   pdfs, temp_dir, download>>

\* pdf_generator.create_pdf applied to data: ValueError on a validation
\* error, else generate_pdf, whose exception is wrapped in a RuntimeError.
create_pdf ==
    /\ pc = "start"
    /\ generator_py = "compiles"
    /\ data \in RecordInputs
    /\ \E err \in {validate_data(data)} :
           IF err.msg = "raises"
           THEN /\ result' = [op |-> "create_pdf", errors |-> <<>>,
                              raised |-> err.exc, returned |-> <<>>]
                /\ UNCHANGED <<calls, render>>
           ELSE IF err # NoError
           THEN /\ result' = [op |-> "create_pdf", errors |-> <<err>>,
                              raised |-> "ValueError", returned |-> <<>>]
                /\ UNCHANGED <<calls, render>>
           ELSE \E outcome \in BuildOutcomes(generator_py) :
                  \E r \in {generate_pdf(data, outcome)} :
                      /\ calls' = Append(calls, data)
                      /\ render' = RenderOf(outcome, r)
                      /\ result' = [op |-> "create_pdf", errors |-> <<>>,
                                    raised |-> IF r.ok THEN "" ELSE "RuntimeError",
                                    returned |-> r.pdf]
    /\ pc' = "returned"
    /\ UNCHANGED <<generator_py, data, file_obj, df, template_type, st_errors, progress, i,
                   pdfs, temp_dir, download>>

\* main.validate_input applied to data.
ValidateInput ==
    /\ pc = "start"
    /\ generator_py = "compiles"
    /\ data \in AllFormInputs
    /\ result' = [op |-> "validate_input", errors |-> validate_input(data),
                  raised |-> "", returned |-> <<>>]
    /\ pc' = "returned"
    /\ UNCHANGED <<generator_py, data, file_obj, df, template_type, calls, render, st_errors, progress, i,
                   pdfs, temp_dir, download>>

\* The file name of the single download; the date is one string.
SingleFilename(d) ==
    PyFormat(d["last_name"]) \o PyFormat(d["first_name"]) \o <<"_">>
    \o PyFormat(d["subject"]) \o <<"_", "YYYYMMDD">> \o <<".", "p", "d", "f">>

\* main.create_single_pdf after the form is submitted.
create_single_pdf ==
    /\ pc = "start"
    /\ generator_py = "compiles"
    /\ data \in AllFormInputs
    /\ LET errors == validate_input(data)
       IN  IF errors # <<>>
           THEN /\ st_errors' = errors
                /\ UNCHANGED <<calls, render, download>>
           ELSE \E outcome \in BuildOutcomes(generator_py) :
                  \E r \in {generate_pdf(data, outcome)} :
                      /\ calls' = Append(calls, data)
                      /\ render' = RenderOf(outcome, r)
                      /\ IF r.ok
                         THEN /\ download' = [offered |-> TRUE, data |-> r.pdf,
                                              filename |-> SingleFilename(data)]
                              /\ st_errors' = st_errors
                         ELSE /\ st_errors' =
                                   <<Msg("pdf_generation_error", "render", {}, {})>>
                              /\ download' = download
    /\ result' = [op |-> "create_single_pdf", errors |-> <<>>, raised |-> "",
                  returned |-> <<>>]
    /\ pc' = "returned"
    /\ UNCHANGED <<generator_py, data, file_obj, df, template_type, progress, i, pdfs, temp_dir>>

----------------------------------------------------------------------------
(* Table validator applied to tables of up to MaxRows rows *)

MaxRows == 2

ValidRow ==
    [subject |-> PyStr(<<"koku", "go">>), test_name |-> PyStr(<<"t">>),
     score |-> PyInt(ScoreMax), sc_year |-> PyStr(<<"chu", "1">>),
     last_name |-> PyStr(<<"a", "b">>), first_name |-> PyStr(<<"c">>)]

\* Rows with every mix of a good, unknown, non-text or null subject, a good
\* (number or numeric text), out-of-range, non-numeric or null score and a
\* good, empty or null name.
TableRows ==
    {[ValidRow EXCEPT !["subject"] = sub, !["score"] = sc, !["last_name"] = ln] :
        sub \in {PyStr(<<"koku", "go">>), PyStr(<<"bi", "jutsu">>), PyInt(7), NaN},
        sc \in {PyInt(ScoreMax), PyInt(150), PyStr(<<"5", "0">>),
                PyStr(<<"a", "b", "c">>), NaN},
        ln \in {PyStr(<<"a", "b">>), PyStr(<<>>), NaN}}

\* A row of a table that has the columns cols only.
Project(r, cols) ==
    [c \in RequiredSet |-> IF c \in cols THEN r[c] ELSE Missing]

ColumnSets ==
    {RequiredSet, RequiredSet \ {"score"}, RequiredSet \ {"score", "subject"},
     RequiredSet \ {"first_name"}}

\* df is a table of 0..max rows of rowset, with one of the column sets.
IsTableOf(rowset, colsets, max) ==
    \E cols \in colsets : \E n \in 0..max :
        \E r \in [1..n -> {Project(x, cols) : x \in rowset}] :
            df = [columns |-> cols, rows |-> r]

\* A table handed to the validators directly; data holds no record.
InitTable ==
    /\ Idle
    /\ generator_py \in GeneratorBuilds
    /\ file_obj = NoFile
    /\ pc = "start"
    /\ data = ValidRow
    /\ template_type = "tokuten_keiji"
    /\ IsTableOf(TableRows, ColumnSets, MaxRows)

\* utils.file_processor.validate_dataframe(df, REQUIRED_COLUMNS), as
\* main.create_bulk_pdf calls it.
ValidateDataframe ==
    /\ pc = "start"
    /\ df # NoUpload
    /\ \E r \in {validate_dataframe(df, REQUIRED_COLUMNS)} :
           /\ result' = [op |-> "validate_dataframe",
                         errors |-> IF r.err = NoError THEN <<>> ELSE <<r.err>>,
                         raised |-> "", returned |-> <<df>>]
           /\ df' = r.df
    /\ pc' = "returned"
    /\ UNCHANGED <<generator_py, data, file_obj, template_type, calls, render, st_errors, progress, i,
                   pdfs, temp_dir, download>>

\* utils.validate_dataframe(df)
UtilsValidateDataframe ==
    /\ pc = "start"
    /\ df # NoUpload
    /\ \E r \in {utils_validate_dataframe(df, generator_py)} :
           /\ result' = [op |-> "utils_validate_dataframe",
                         errors |-> IF r.err = NoError \/ r.err.msg = "raises"
                                    THEN <<>> ELSE <<r.err>>,
                         raised |-> IF r.err.msg = "raises" THEN r.err.exc ELSE "",
                         returned |-> <<df>>]
           /\ df' = r.df
    /\ pc' = "returned"
    /\ UNCHANGED <<generator_py, data, file_obj, template_type, calls, render, st_errors, progress, i,
                   pdfs, temp_dir, download>>

----------------------------------------------------------------------------
(* Batch orchestrator: main.create_bulk_pdf *)

\* Rows as pd.read_csv / pd.read_excel deliver them: a blank cell is NaN.
\* Two names concatenate to the same text ("a" + "bc", "ab" + "c"); one
\* names the parent of the temporary directory ("../x"), two a place by an
\* absolute path ("/tmp/x", "/var/tmp/x"); one is 85 kanji long (255
\* bytes).

\* The longest file name and the longest path Linux takes, in bytes.
NAME_MAX == 255

PATH_MAX == 4096

BulkRows ==
    {[ValidRow EXCEPT !["score"] = PyInt(ScoreMin),
                      !["last_name"] = PyStr(<<"a">>),
                      !["first_name"] = PyStr(<<"b", "c">>)],
     ValidRow,
     [ValidRow EXCEPT !["last_name"] = PyStr(<<".", ".", "/", "x">>)],
     [ValidRow EXCEPT !["last_name"] = PyStr(<<"/", "t", "m", "p", "/", "x">>)],
     [ValidRow EXCEPT !["last_name"] = PyStr(<<"/", "v", "a", "r", "/", "t",
                                               "m", "p", "/", "x">>)],
     [ValidRow EXCEPT !["last_name"] = PyStr([k \in 1..(NAME_MAX \div 3) |-> "yama"])],
     [ValidRow EXCEPT !["score"] = PyInt(150)]}


MaxBatchRows == 3

\* A file was uploaded and read into df; data holds no record.
InitBulk ==
    /\ Idle
    /\ generator_py \in GeneratorBuilds
    /\ file_obj = NoFile
    /\ pc = "uploaded"
    /\ data = ValidRow
    /\ template_type \in TemplateTypes
    /\ IsTableOf(BulkRows, {RequiredSet, RequiredSet \ {"score"}}, MaxBatchRows)

\* f"{row['last_name']}{row['first_name']}_{row['subject']}.pdf"
Filename(row) ==
    PyFormat(row["last_name"]) \o PyFormat(row["first_name"]) \o <<"_">>
    \o PyFormat(row["subject"]) \o <<".", "p", "d", "f">>

\* The input_values built from row i (0-based) of df.
InputValues(d, k, template) ==
    [subject |-> d.rows[k + 1]["subject"],
     test_name |-> d.rows[k + 1]["test_name"],
     score |-> d.rows[k + 1]["score"],
     sc_year |-> d.rows[k + 1]["sc_year"],
     last_name |-> d.rows[k + 1]["last_name"],
     first_name |-> d.rows[k + 1]["first_name"],
     template_type |-> PyStr(<<template>>)]

\* A file name or a path is a text, "/" separating its components.  A
\* directory or a file of the file system is the sequence of the components
\* that lead to it from the root, <<>> being the root.

\* The random name tempfile gives the directory of the batch (one string);
\* it makes it in /tmp.
TempName == "tmpXXXXXXXX"

\* temp_dir as a directory.
TempDirPath == <<<<"t", "m", "p">>, <<TempName>>>>

IsAbsolute(filename) == filename # <<>> /\ Head(filename) = "/"

\* os.path.join(temp_dir, filename), temp_dir being "/tmp/" and the name
\* of the directory: an absolute filename drops temp_dir.
PathJoin(filename) ==
    IF IsAbsolute(filename) THEN filename
    ELSE <<"/", "t", "m", "p", "/">> \o <<TempName, "/">> \o filename

\* path.split("/"), k being the first position of a "/".
RECURSIVE Components(_)
ComponentsAt(path, k) ==
    IF k = 0 THEN <<path>>
    ELSE <<SubSeq(path, 1, k - 1)>>
         \o Components(SubSeq(path, k + 1, Len(path)))

Components(path) == ComponentsAt(path, Find(path, <<"/">>))

\* "/".join(comps)
RECURSIVE Join(_)
Join(comps) ==
    IF comps = <<>> THEN <<>>
    ELSE IF Len(comps) = 1 THEN comps[1]
    ELSE comps[1] \o <<"/">> \o Join(Tail(comps))

\* The bytes a character takes in a file name (os.fsencode: UTF-8, a low
\* surrogate U+DC80..U+DCFF standing for one byte); a string that stands
\* for a run of ASCII text takes its length.
ByteWidth(c) ==
    LET Width(n) ==
            IF n < 0 THEN Len(c)
            ELSE IF n < 128 \/ n \in 56448..56575 THEN 1
            ELSE IF n < 2048 THEN 2
            ELSE IF n < 65536 THEN 3
            ELSE 4
    IN  Width(CodePoint(c))

\* len(os.fsencode(name))
RECURSIVE NameBytes(_)
NameBytes(name) ==
    IF Len(name) = 0 THEN 0
    ELSE IF Len(name) = 1 THEN ByteWidth(name[1])
    ELSE NameBytes(SubSeq(name, 1, Len(name) \div 2))
         + NameBytes(SubSeq(name, Len(name) \div 2 + 1, Len(name)))

\* What the program knows of the directories of its host.  The root and
\* /tmp are there, and while the batch runs so is its directory, which is
\* new: nothing is under it but the files the batch wrote, and what the
\* batch wrote is a file.  No name is longer than NAME_MAX bytes.  Whether
\* any other directory is there is up to the host.
DirectoryKnown(td, dir) ==
    IF dir \in {<<>>, <<<<"t", "m", "p">>>>} THEN "is"
    ELSE IF dir = TempDirPath THEN (IF td.exists THEN "is" ELSE "not")
    ELSE IF \/ NameBytes(dir[Len(dir)]) > NAME_MAX
            \/ Len(dir) > 2 /\ SubSeq(dir, 1, 2) = TempDirPath
            \/ \E f \in td.files \cup td.outside : f.path = dir
    THEN "not"
    ELSE "host"

\* The directory reached from dir through the components comps: "" and "."
\* stay, ".." goes up (the root is its own parent), a name enters the
\* directory of that name.  [way, dir]: way is "known" while every
\* directory entered is known to be there, "host" once one of them is up to
\* the host, "none" when one is not there.
RECURSIVE Walk(_, _, _, _)
Walk(td, dir, comps, way) ==
    IF comps = <<>> THEN [way |-> way, dir |-> dir]
    ELSE IF Head(comps) \in {<<>>, <<".">>} THEN Walk(td, dir, Tail(comps), way)
    ELSE IF Head(comps) = <<".", ".">>
    THEN Walk(td, SubSeq(dir, 1, Len(dir) - 1), Tail(comps), way)
    ELSE IF DirectoryKnown(td, Append(dir, Head(comps))) = "not"
    THEN [way |-> "none", dir |-> dir]
    ELSE Walk(td, Append(dir, Head(comps)), Tail(comps),
              IF DirectoryKnown(td, Append(dir, Head(comps))) = "host"
              THEN "host" ELSE way)

\* The file an absolute path names: [way, dir, file].  way is "none" when
\* open(path, "wb") fails on every host: the path holds a NUL (ValueError)
\* or a surrogate that os.fsencode does not take (UnicodeEncodeError) or is
\* PATH_MAX bytes long or longer, a directory on the way is not there, the
\* last component is empty, "." or "..", is longer than NAME_MAX bytes or
\* is a directory.  It is "known" when the file is in the directory of the
\* batch, which the program made and can write to, and "host" when the
\* host decides: a directory on the way, what is under the name already
\* or the right to write there is the host's.
Resolve(td, path) ==
    LET comps == Components(path)
        name == comps[Len(comps)]
        w == Walk(td, <<>>, SubSeq(comps, 1, Len(comps) - 1), "known")
    IN  [way |-> IF \/ \E k \in 1..Len(path) :
                          \E n \in {CodePoint(path[k])} :
                             n = 0 \/ n \in 55296..56447 \/ n \in 56576..57343
                    \/ NameBytes(path) >= PATH_MAX
                    \/ w.way = "none"
                    \/ name \in {<<>>, <<".">>, <<".", ".">>}
                    \/ NameBytes(name) > NAME_MAX
                    \/ DirectoryKnown(td, Append(w.dir, name)) = "is"
                 THEN "none"
                 ELSE IF \/ w.way = "host"
                         \/ w.dir # TempDirPath
                 THEN "host"
                 ELSE "known",
         dir |-> w.dir,
         file |-> Append(w.dir, name)]

\* What open(pdf_path, "wb") can do: TRUE for the file opened, FALSE for
\* an exception (OSError, ValueError, UnicodeEncodeError).
OpenForWrite(td, filename) ==
    CASE Resolve(td, PathJoin(filename)).way = "known" -> {TRUE}
      [] Resolve(td, PathJoin(filename)).way = "none" -> {FALSE}
      [] OTHER -> {TRUE, FALSE}

\* f.write(pdf_data) on the file opened: it is created or replaced, under
\* the temporary directory or outside it.
WriteFile(td, filename, content) ==
    LET file == [path |-> Resolve(td, PathJoin(filename)).file,
                 content |-> content]
    IN  IF /\ Len(file.path) > Len(TempDirPath)
           /\ SubSeq(file.path, 1, Len(TempDirPath)) = TempDirPath
        THEN [td EXCEPT !.files = {f \in @ : f.path # file.path} \cup {file}]
        ELSE [td EXCEPT !.outside = {f \in @ : f.path # file.path} \cup {file}]

\* What the file of the path holds.
ReadFile(td, path) ==
    (CHOOSE f \in td.files \cup td.outside :
        f.path = Resolve(td, path).file).content

\* The end of the with block: the directory goes with all that is under
\* it; what was written outside it stays.
Cleanup(td) == [td EXCEPT !.exists = FALSE, !.files = {}]

\* The except / finally clauses and the end of the with block: the message
\* is shown, the directory is removed, the progress bar is emptied.
AbortBatch(message, where) ==
    /\ st_errors' = Append(st_errors, message)
    /\ temp_dir' = Cleanup(temp_dir)
    /\ progress' = NoProgress
    /\ pc' = where

\* The file is read or re-read and validated.  Reading it, detect_encoding
\* raises (a CSV file without a guessable encoding), pd.read_csv /
\* pd.read_excel raises, or the table is read; an exception of the reading
\* is shown as a file-processing error, an error of the validator is shown
\* and ends the run, else the preview and the button are shown.
Upload ==
    /\ pc = "uploaded"
    /\ generator_py = "compiles"
    /\ \E read \in {"ok", "encoding_error", "read_error"} :
         \E r \in {validate_dataframe(df, REQUIRED_COLUMNS)},
            failed \in {Msg("file_processing_error", read, {}, {})} :
             IF read # "ok"
             THEN /\ df' = NoUpload
                  /\ result' = [op |-> "create_bulk_pdf", errors |-> <<failed>>,
                                raised |-> "", returned |-> <<>>]
                  /\ st_errors' = Append(st_errors, failed)
                  /\ pc' = "read_failed"
             ELSE /\ df' = r.df
                  /\ result' = [op |-> "create_bulk_pdf",
                                errors |-> IF r.err = NoError THEN <<>>
                                           ELSE <<r.err>>,
                                raised |-> "", returned |-> <<df>>]
                  /\ IF r.err # NoError
                     THEN /\ st_errors' = Append(st_errors, r.err)
                          /\ pc' = "rejected"
                     ELSE /\ st_errors' = st_errors
                          /\ pc' = "preview"
    /\ UNCHANGED <<generator_py, data, file_obj, template_type, calls, render, progress, i,
                   pdfs, temp_dir, download>>

\* The button is pressed: the script runs again, the table passes the
\* validator again, the progress bar is set to 0 and the directory made.
ClickGenerate ==
    /\ pc = "preview"
    /\ validate_dataframe(df, REQUIRED_COLUMNS).err = NoError
    /\ pdfs' = <<>>
    /\ progress' = [shown |-> TRUE, num |-> 0, den |-> 1]
    /\ temp_dir' = [exists |-> TRUE, files |-> {}, outside |-> {}]
    /\ i' = 0
    /\ pc' = IF Len(df.rows) > 0 THEN "loop" ELSE "zip"
    /\ UNCHANGED <<generator_py, data, file_obj, df, template_type, result, calls, render, st_errors, download>>

\* The head of one iteration: progress = (i + 1) / len(df) is shown.
UpdateProgress ==
    /\ pc = "loop"
    /\ progress' = [shown |-> TRUE, num |-> i + 1, den |-> Len(df.rows)]
    /\ pc' = "render"
    /\ UNCHANGED <<generator_py, data, file_obj, df, template_type, result, calls, render, st_errors, i, pdfs,
                   temp_dir, download>>

\* The mutant of RenderRow: a row that fails is reported and skipped, and
\* the batch goes on with the next row.
RenderRowSkipFailed ==
    /\ pc = "render"
    /\ \E outcome \in BuildOutcomes(generator_py) :
         \E r \in {generate_pdf(InputValues(df, i, template_type), outcome)},
            filename \in {Filename(df.rows[i + 1])} :
             /\ calls' = Append(calls, InputValues(df, i, template_type))
             /\ i' = i + 1
             /\ pc' = IF i + 1 < Len(df.rows) THEN "loop" ELSE "zip"
             /\ \E opened \in OpenForWrite(temp_dir, filename) :
                  IF ~r.ok \/ ~opened
                  THEN /\ render' = [RenderOf(outcome, r) EXCEPT
                                        !.raised = IF r.ok THEN "open" ELSE @]
                       /\ st_errors' = Append(st_errors,
                              Msg("pdf_generation_error", "render", {}, {}))
                       /\ UNCHANGED <<pdfs, temp_dir, progress>>
                  ELSE /\ render' = RenderOf(outcome, r)
                       /\ temp_dir' = WriteFile(temp_dir, filename, r.pdf)
                       /\ pdfs' = Append(pdfs, <<PathJoin(filename), filename>>)
                       /\ UNCHANGED <<st_errors, progress>>
    /\ UNCHANGED <<generator_py, data, file_obj, df, template_type, result, download>>

\* The rest of the iteration: generate_pdf, the file written under the
\* row's name, the pair appended; an exception of generate_pdf or of open()
\* ends the batch.
RenderRow ==
    /\ pc = "render"
    /\ \E outcome \in BuildOutcomes(generator_py) :
         \E r \in {generate_pdf(InputValues(df, i, template_type), outcome)},
            filename \in {Filename(df.rows[i + 1])} :
             /\ calls' = Append(calls, InputValues(df, i, template_type))
             /\ IF ~r.ok
                THEN /\ render' = RenderOf(outcome, r)
                     /\ AbortBatch(Msg("pdf_generation_error", "render", {}, {}),
                                   "failed")
                     /\ UNCHANGED <<i, pdfs>>
                ELSE \E opened \in OpenForWrite(temp_dir, filename) :
                       IF ~opened
                       THEN /\ render' = [RenderOf(outcome, r) EXCEPT
                                             !.raised = "open"]
                            /\ AbortBatch(Msg("pdf_generation_error", "open",
                                              {}, {}), "failed")
                            /\ UNCHANGED <<i, pdfs>>
                       ELSE /\ render' = RenderOf(outcome, r)
                            /\ temp_dir' = WriteFile(temp_dir, filename, r.pdf)
                            /\ pdfs' = Append(pdfs, <<PathJoin(filename), filename>>)
                            /\ i' = i + 1
                            /\ pc' = IF i + 1 < Len(df.rows) THEN "loop" ELSE "zip"
                            /\ UNCHANGED <<st_errors, progress>>
    /\ UNCHANGED <<generator_py, data, file_obj, df, template_type, result, download>>

\* The loop of os.path.normpath over the components of a path: "" and "."
\* are dropped, ".." takes the component before it away unless there is
\* none (then it stays in a relative path and is dropped in a rooted one)
\* or that one is "..".
RECURSIVE NormComponents(_, _, _)
NormComponents(comps, new_comps, rooted) ==
    IF comps = <<>> THEN new_comps
    ELSE IF Head(comps) \in {<<>>, <<".">>}
    THEN NormComponents(Tail(comps), new_comps, rooted)
    ELSE IF \/ Head(comps) # <<".", ".">>
            \/ ~rooted /\ new_comps = <<>>
            \/ new_comps # <<>> /\ new_comps[Len(new_comps)] = <<".", ".">>
    THEN NormComponents(Tail(comps), Append(new_comps, Head(comps)), rooted)
    ELSE IF new_comps # <<>>
    THEN NormComponents(Tail(comps), SubSeq(new_comps, 1, Len(new_comps) - 1),
                        rooted)
    ELSE NormComponents(Tail(comps), new_comps, rooted)

\* The name zipfile gives an entry: os.path.normpath(arcname) without its
\* leading separators; "." for a relative name that normalizes to nothing.
ArcName(filename) ==
    LET new_comps == NormComponents(Components(filename), <<>>,
                                    IsAbsolute(filename))
    IN  IF new_comps = <<>> /\ ~IsAbsolute(filename) THEN <<".">>
        ELSE Join(new_comps)

\* zip_file.write(pdf_path, filename) for every pair: one entry per pair,
\* holding what the file of that path holds now.
ZipEntries(td, pairs) ==
    [k \in 1..Len(pairs) |->
        [name |-> ArcName(pairs[k][2]), content |-> ReadFile(td, pairs[k][1])]]

\* After the loop: the archive is written (its name holds the date and
\* time, one string) and read back, the success
\* message and the download button are shown; the with block ends.  An
\* I/O error of the archive goes the way of any exception.
MakeZip ==
    /\ pc = "zip"
    /\ \E outcome \in {"ok", "error"} :
         IF outcome = "ok"
         THEN /\ download' = [offered |-> TRUE,
                              data |-> ZipEntries(temp_dir, pdfs),
                              filename |-> <<"sei", "seki", "hyo", "_">>
                                  \o <<"YYYYMMDD_HHMMSS">>
                                  \o <<".", "z", "i", "p">>]
              /\ temp_dir' = Cleanup(temp_dir)
              /\ progress' = NoProgress
              /\ pc' = "done"
              /\ UNCHANGED st_errors
         ELSE /\ AbortBatch(Msg("pdf_generation_error", "zip", {}, {}),
                            "zip_failed")
              /\ UNCHANGED download
    /\ UNCHANGED <<generator_py, data, file_obj, df, template_type, result, calls, render, i, pdfs>>

----------------------------------------------------------------------------
(* File processors applied to the table a file holds *)

MaxFileRows == 2

\* Cells as a file gives them: text with blanks around it, a score that is
\* numeric text, no number, a float or blank, a blank subject.
FileRows ==
    {ValidRow,
     [ValidRow EXCEPT !["last_name"] = PyStr(<<" ", "a", "\t">>)],
     [ValidRow EXCEPT !["last_name"] = PyStr(<<" ">>)],
     [ValidRow EXCEPT !["score"] = PyStr(<<" ", "5", "0">>)],
     [ValidRow EXCEPT !["score"] = PyStr(<<"a", "b", "c">>)],
     [ValidRow EXCEPT !["score"] = PyFloat(505)],
     [ValidRow EXCEPT !["score"] = PyInt(150)],
     [ValidRow EXCEPT !["score"] = NaN],
     [ValidRow EXCEPT !["subject"] = NaN],
     [ValidRow EXCEPT !["subject"] = PyStr(<<"bi", "jutsu">>)]}

\* A file is handed to the file processors; df is the table it holds.
InitFile ==
    /\ Idle
    /\ generator_py \in GeneratorBuilds
    /\ file_obj = NoFile
    /\ pc = "file"
    /\ data = ValidRow
    /\ template_type = "tokuten_keiji"
    /\ IsTableOf(FileRows,
                 {RequiredSet, RequiredSet \ {"score"},
                  RequiredSet \ {"first_name"}},
                 MaxFileRows)

\* utils.file_processor.process_uploaded_file(uploaded_file)
ProcessUploadedFile ==
    /\ pc = "file"
    /\ \E outcome \in UploadedFileOutcomes :
         \E r \in {process_uploaded_file(df, outcome)} :
             /\ result' = [op |-> "process_uploaded_file",
                           errors |-> IF r.raised = "" THEN <<>>
                                      ELSE <<Msg("file_processing_error", r.exc,
                                                 {}, {})>>,
                           raised |-> r.raised, returned |-> <<df>>]
             /\ df' = r.df
    /\ pc' = "returned"
    /\ UNCHANGED <<generator_py, data, file_obj, template_type, calls, render, st_errors,
                   progress, i, pdfs, temp_dir, download>>

\* utils.process_file(file_obj, file_extension)
ProcessFile ==
    /\ pc = "file"
    /\ \E outcome \in FileOutcomes :
         \E r \in {process_file(df, outcome, generator_py)} :
             /\ result' = [op |-> "process_file",
                           errors |-> IF r.raised = "" THEN <<>> ELSE <<r.err>>,
                           raised |-> r.raised, returned |-> <<df>>]
             /\ df' = r.df
    /\ pc' = "returned"
    /\ UNCHANGED <<generator_py, data, file_obj, template_type, calls, render, st_errors,
                   progress, i, pdfs, temp_dir, download>>

----------------------------------------------------------------------------
(* Encoding detector: utils.file_processor.detect_encoding, which          *)
(* main.create_bulk_pdf calls, and utils.detect_encoding.  A label is a    *)
(* sequence of characters.                                                 *)

LowerChar(c) ==
    CASE c = "A" -> "a" [] c = "B" -> "b" [] c = "C" -> "c" [] c = "D" -> "d"
      [] c = "E" -> "e" [] c = "F" -> "f" [] c = "G" -> "g" [] c = "H" -> "h"
      [] c = "I" -> "i" [] c = "J" -> "j" [] c = "K" -> "k" [] c = "L" -> "l"
      [] c = "M" -> "m" [] c = "N" -> "n" [] c = "O" -> "o" [] c = "P" -> "p"
      [] c = "Q" -> "q" [] c = "R" -> "r" [] c = "S" -> "s" [] c = "T" -> "t"
      [] c = "U" -> "u" [] c = "V" -> "v" [] c = "W" -> "w" [] c = "X" -> "x"
      [] c = "Y" -> "y" [] c = "Z" -> "z" [] OTHER -> c

\* str.lower()
Lower(label) == [k \in 1..Len(label) |-> LowerChar(label[k])]

ALLOWED_ENCODINGS ==
    {<<"u", "t", "f", "-", "8">>,
     <<"s", "h", "i", "f", "t", "-", "j", "i", "s">>,
     <<"s", "h", "i", "f", "t", "_", "j", "i", "s">>}

Utf8 == <<"u", "t", "f", "-", "8">>

\* Labels chardet gives: utf-8, ascii, SHIFT_JIS, CP932, EUC-JP, UTF-16,
\* UTF-8-SIG.
GuessLabels ==
    {Utf8,
     <<"a", "s", "c", "i", "i">>,
     <<"S", "H", "I", "F", "T", "_", "J", "I", "S">>,
     <<"C", "P", "9", "3", "2">>,
     <<"E", "U", "C", "-", "J", "P">>,
     <<"U", "T", "F", "-", "1", "6">>,
     <<"U", "T", "F", "-", "8", "-", "S", "I", "G">>}

MaxSize == 2

\* Streams and byte buffers handed to the detector: what chardet.detect
\* does on the bytes (a label, no label as on empty input, an exception),
\* the cursor and the size of the stream.
EncodingInputs ==
    {[kind |-> k, label |-> l, pos |-> p, size |-> n, seekable |-> sk] :
        k \in {"label", "none", "raises"}, l \in GuessLabels,
        p \in 0..MaxSize, n \in {0, MaxSize}, sk \in BOOLEAN}

\* utils.file_processor.detect_encoding(file_obj): [raised, returned, pos].
\* The label is returned as the guesser gave it unless its lowercase form
\* is none of the three names; an exception leaves the function at once,
\* the cursor behind the bytes read.
detect_encoding(f) ==
    IF f.kind = "raises"
    THEN [raised |-> "TypeError", returned |-> <<>>, pos |-> f.size]
    ELSE IF f.kind = "none"
    THEN [raised |-> "AttributeError", returned |-> <<>>, pos |-> f.size]
    ELSE [raised |-> "",
          returned |-> <<IF Lower(f.label) \notin ALLOWED_ENCODINGS
                         THEN Utf8 ELSE f.label>>,
          pos |-> 0]

\* utils.detect_encoding(file_obj): the lowercase label or utf-8; every
\* exception becomes a FileProcessError; finally the cursor of a stream is
\* set to 0 (bytes have none).
utils_detect_encoding(f) ==
    LET pos == IF f.seekable THEN 0 ELSE f.pos
    IN  IF f.kind \in {"raises", "none"}
        THEN [raised |-> "FileProcessError", returned |-> <<>>, pos |-> pos]
        ELSE [raised |-> "",
              returned |-> <<IF Lower(f.label) \in ALLOWED_ENCODINGS
                             THEN Lower(f.label) ELSE Utf8>>,
              pos |-> pos]

\* The message of an exception of the detector.
EncodingError(r, f) ==
    IF r.raised = "" THEN <<>>
    ELSE <<Msg(IF r.raised = "FileProcessError"
               THEN "encoding_detection_failed" ELSE "uncaught",
               IF f.kind = "raises" THEN "TypeError" ELSE "AttributeError",
               {}, {})>>

InitEncoding ==
    /\ Idle
    /\ generator_py \in GeneratorBuilds
    /\ pc = "start"
    /\ data = ValidRow
    /\ df = NoUpload
    /\ template_type = "tokuten_keiji"
    /\ file_obj \in EncodingInputs
    /\ file_obj.pos <= file_obj.size
    /\ file_obj.kind = "label" => file_obj.size > 0
    /\ file_obj.kind # "label" => file_obj.label = Utf8

DetectEncoding ==
    /\ pc = "start"
    /\ file_obj # NoFile
    /\ file_obj.seekable
    /\ LET r == detect_encoding(file_obj)
       IN  /\ result' = [op |-> "detect_encoding",
                         errors |-> EncodingError(r, file_obj),
                         raised |-> r.raised, returned |-> r.returned]
           /\ file_obj' = [file_obj EXCEPT !.pos = r.pos]
    /\ pc' = "returned"
    /\ UNCHANGED <<generator_py, data, df, template_type, calls, st_errors, progress, i,
                   pdfs, temp_dir, download, render>>

UtilsDetectEncoding ==
    /\ pc = "start"
    /\ file_obj # NoFile
    /\ LET r == utils_detect_encoding(file_obj)
       IN  /\ result' = [op |-> "utils_detect_encoding",
                         errors |-> EncodingError(r, file_obj),
                         raised |-> r.raised, returned |-> r.returned]
           /\ file_obj' = [file_obj EXCEPT !.pos = r.pos]
    /\ pc' = "returned"
    /\ UNCHANGED <<generator_py, data, df, template_type, calls, st_errors, progress, i,
                   pdfs, temp_dir, download, render>>

----------------------------------------------------------------------------
(* The program: one operation per behaviour, from its input to its end *)

Init == InitRecord \/ InitTable \/ InitBulk \/ InitFile \/ InitEncoding

Next ==
    \/ ImportGenerator
    \/ ValidateData
    \/ create_pdf
    \/ ValidateInput
    \/ create_single_pdf
    \/ ValidateDataframe
    \/ UtilsValidateDataframe
    \/ Upload
    \/ ClickGenerate
    \/ UpdateProgress
    \/ RenderRow
    \/ MakeZip
    \/ ProcessUploadedFile
    \/ ProcessFile
    \/ DetectEncoding
    \/ UtilsDetectEncoding

Spec == Init /\ [][Next]_vars

----------------------------------------------------------------------------
(* Properties of the record validator *)

ValidateDataReturned ==
    pc = "returned" /\ result.op = "validate_data" /\ result.raised = ""

\* A score that is integral and within 0..100: a whole number, a float
\* without fraction, or text that reads as a whole number.
IntegralInRange(v) ==
    CASE v.t = "int"   -> ScoreMin <= v.n /\ v.n <= ScoreMax
      [] v.t = "float" -> v.n % 10 = 0 /\ ScoreMin * 10 <= v.n /\ v.n <= ScoreMax * 10
      [] v.t = "str"   -> /\ AllDigits(Strip(v.s))
                          /\ ScoreMin <= DigitsValue(Strip(v.s))
                          /\ DigitsValue(Strip(v.s)) <= ScoreMax
      [] OTHER         -> FALSE

PresentNonEmptyText(v) == v.t = "str" /\ v.s # <<>>

OtherFieldsValid(d) ==
    /\ IsValidSubject(d["subject"])
    /\ \A f \in {"test_name", "sc_year", "last_name", "first_name"} :
          PresentNonEmptyText(d[f])

\* C1: a record whose other required fields are present, non-empty and
\* valid is accepted by validate_data if and only if its score is integral
\* and 0 <= score <= 100 (so 0 and 100 are accepted, -1 and 101 rejected).
C1_AcceptsIffIntegralInRange ==
    (ValidateDataReturned /\ OtherFieldsValid(data))
        => (result.errors = <<>> <=> IntegralInRange(data["score"]))

\* A required field that is absent or empty as the specification has it:
\* no key, None or the empty string.
EmptyField(v) == v \in {Missing, PyNone, PyStr(<<>>)}

\* The rules of the record validator a record violates, as the
\* specification states them: one per required field that is absent or
\* empty, the subject rule for a subject that is given and is none of the
\* eight names, the score rule for a score that is given and is no integer
\* within 0..100.
ViolatedRules(d) ==
    {f \in RequiredSet : EmptyField(d[f])}
    \cup (IF ~EmptyField(d["subject"]) /\ ~IsValidSubject(d["subject"])
          THEN {"unknown_subject"} ELSE {})
    \cup (IF ~EmptyField(d["score"]) /\ ~IntegralInRange(d["score"])
          THEN {"bad_score"} ELSE {})

\* The rules of the form validator an input of the form violates: an empty
\* last name, an empty first name, a score outside 0..100.
ViolatedFormRules(d) ==
    {f \in {"last_name", "first_name"} : d[f] = PyStr(<<>>)}
    \cup (IF d["score"].n \in ScoreMin..ScoreMax THEN {} ELSE {"score"})

----------------------------------------------------------------------------
(* Properties of the table validator *)

TableValidatorReturned ==
    /\ pc = "returned"
    /\ result.op \in {"validate_dataframe", "utils_validate_dataframe"}
    /\ result.raised = ""

\* The table as it was handed to the validator.
GivenTable == result.returned[1]

\* A score cell that is a number, or text that reads as one, within 0..100.
NumericInRange(v) ==
    /\ v.t \in {"int", "float", "str"}
    /\ CellToNumeric(v).ok
    /\ InScoreRange(CellToNumeric(v).v)

\* The four checks of the table validator, each on its own.
ColumnSetFails(d) == RequiredSet \ d.columns # {}

ScoreFails(d) ==
    "score" \in d.columns
        /\ \E k \in 1..Len(d.rows) : ~NumericInRange(d.rows[k]["score"])

NullFails(d) ==
    \E c \in (RequiredSet \ {"score"}) \cap d.columns :
        \E k \in 1..Len(d.rows) : IsNa(d.rows[k][c])

SubjectFails(d) ==
    "subject" \in d.columns
        /\ \E k \in 1..Len(d.rows) : ~IsValidSubject(d.rows[k]["subject"])

\* The subjects of the table that are none of the eight names.
UnknownSubjects(d) ==
    {d.rows[k]["subject"] : k \in {m \in 1..Len(d.rows) :
        /\ ~IsNa(d.rows[m]["subject"])
        /\ ~IsValidSubject(d.rows[m]["subject"])}}

\* C3: a record or table with a subject outside the eight names is
\* rejected with a message naming that subject.  The claim asks it whatever
\* the other fields hold; it is stated here for the inputs on which the
\* subject rule is the only rule violated, where collecting the errors and
\* stopping at the first one ask the same: every other field of the record
\* is non-empty text and its score an integer within 0..100; the table has
\* its columns, numeric scores within 0..100 and no null or blank cell.
C3_NamesUnknownSubject ==
    /\ (ValidateDataReturned
            /\ PresentNonEmptyText(data["subject"])
            /\ ~IsValidSubject(data["subject"])
            /\ \A f \in {"test_name", "sc_year", "last_name", "first_name"} :
                  PresentNonEmptyText(data[f])
            /\ IntegralInRange(data["score"]))
          => /\ result.errors # <<>>
             /\ result.errors[1].vals = {data["subject"]}
    /\ (TableValidatorReturned
            /\ ~ColumnSetFails(GivenTable)
            /\ UnknownSubjects(GivenTable) # {}
            /\ \A k \in 1..Len(GivenTable.rows) :
                  /\ NumericInRange(GivenTable.rows[k]["score"])
                  /\ \A c \in RequiredSet \ {"score"} :
                        PresentNonEmptyText(GivenTable.rows[k][c])
                        /\ Strip(GivenTable.rows[k][c].s) # <<>>)
          => /\ result.errors # <<>>
             /\ UnknownSubjects(GivenTable) \subseteq result.errors[1].vals

\* C4: when a required column is absent the table validator returns the
\* missing-columns message listing exactly required minus present columns
\* and runs no other check (the score column is not coerced); a table
\* missing only "score" gets exactly "score" listed, whatever its cells.
C4_MissingColumnsShortCircuit ==
    (TableValidatorReturned /\ RequiredSet \ GivenTable.columns # {})
        => /\ result.errors =
                <<Msg("missing_columns", "", RequiredSet \ GivenTable.columns, {})>>
           /\ df = GivenTable

\* A table without the score column, holding an unknown subject and a null
\* name, was rejected with exactly "score" listed.
C4_Witness ==
    /\ TableValidatorReturned
    /\ GivenTable.columns = RequiredSet \ {"score"}
    /\ \E k \in 1..Len(GivenTable.rows) :
          /\ ~IsValidSubject(GivenTable.rows[k]["subject"])
          /\ IsNa(GivenTable.rows[k]["last_name"])
    /\ result.errors[1].cols = {"score"}

\* Text that is empty or holds spaces only.
BlankText(v) == v.t = "str" /\ Strip(v.s) = <<>>

\* The invariant of a table: every required column present, every score
\* numeric and within 0..100, no cell of a required column empty or
\* missing, every subject one of the eight names.
TableInvariant(d) ==
    /\ RequiredSet \subseteq d.columns
    /\ \A k \in 1..Len(d.rows) :
          /\ NumericInRange(d.rows[k]["score"])
          /\ \A c \in RequiredSet : ~IsNa(d.rows[k][c]) /\ ~BlankText(d.rows[k][c])
          /\ IsValidSubject(d.rows[k]["subject"])

\* C5: the table validator returns no error if and only if the table
\* invariant holds; one score of 150 or one empty cell (an empty or blank
\* string included) fails the whole table.
C5_NoErrorIffTableInvariant ==
    TableValidatorReturned
        => (result.errors = <<>> <=> TableInvariant(GivenTable))

\* The check a message of the table validator belongs to, in the order
\* column set (1), score (2), null (3), subject (4).
CheckOf(m) ==
    CASE m.msg = "missing_columns" -> 1
      [] m.msg = "score_out_of_range" -> 2
      [] m.msg = "validation_exception" /\ m.exc = "unable_to_parse" -> 2
      [] m.msg = "contains_empty" -> 3
      [] m.msg = "invalid_subjects" -> 4
      [] m.msg = "validation_exception" /\ m.exc = "join_expected_str" -> 4
      [] OTHER -> 0

FirstFailingTableCheck(d) ==
    IF ColumnSetFails(d) THEN 1
    ELSE IF ScoreFails(d) THEN 2
    ELSE IF NullFails(d) THEN 3
    ELSE IF SubjectFails(d) THEN 4
    ELSE 0

\* C6: the table validator returns at most one message, that of the first
\* failing check in the order column set, score, null, subject (an
\* out-of-range score with an unknown subject reports the score; a
\* non-numeric score reports the score check); none when no check fails.
C6_FirstFailingCheckWins ==
    TableValidatorReturned
        => /\ Len(result.errors) <= 1
           /\ (result.errors = <<>>) <=> (FirstFailingTableCheck(GivenTable) = 0)
           /\ result.errors # <<>>
                => CheckOf(result.errors[1]) = FirstFailingTableCheck(GivenTable)

\* A table with a non-numeric score, a null name and an unknown subject was
\* rejected with the message of the score check.
C6_Witness ==
    /\ TableValidatorReturned
    /\ ~ColumnSetFails(GivenTable)
    /\ \E k \in 1..Len(GivenTable.rows) :
          GivenTable.rows[k]["score"] = PyStr(<<"a", "b", "c">>)
    /\ NullFails(GivenTable)
    /\ SubjectFails(GivenTable)
    /\ CheckOf(result.errors[1]) = 2

----------------------------------------------------------------------------
(* Properties of the paths to the renderer *)

\* The invariant of a record: score within 0..100, subject one of the
\* eight names, last and first name not empty.
RecordInvariant(d) ==
    /\ NumericInRange(d["score"])
    /\ IsValidSubject(d["subject"])
    /\ PresentNonEmptyText(d["last_name"])
    /\ PresentNonEmptyText(d["first_name"])

\* C7: validation gates rendering on the single-record paths and the batch
\* path: no input that violates the record invariant reaches generate_pdf.
C7_InvalidNeverRendered ==
    \A k \in 1..Len(calls) : RecordInvariant(calls[k])

InBatch == result.op = "create_bulk_pdf"

\* A row of the batch failed: generate_pdf or open() raised in the
\* iteration of the row handed to the renderer last.
RowFailed == InBatch /\ render.raised # ""

\* C8: when a row of the batch fails, the batch ends at that row: the error
\* is shown (once), the rows before it and the failed row were each handed
\* to the renderer once, in order, no later row is, no archive is offered,
\* the directory is gone and nothing of the batch can run.
C8_BatchAbortsAtFailedRow ==
    RowFailed
        => /\ pc = "failed"
           /\ Len(st_errors) = 1
           /\ st_errors[1].msg = "pdf_generation_error"
           /\ ~download.offered
           /\ ~temp_dir.exists
           /\ Len(calls) = i + 1
           /\ \A k \in 1..Len(calls) : calls[k] = InputValues(df, k - 1, template_type)
           /\ Len(pdfs) = i
           /\ ~ENABLED (UpdateProgress \/ RenderRow \/ MakeZip)

\* The renderer failed on the second of three rows.
C8_Witness ==
    /\ RowFailed
    /\ render.raised = "generate_pdf"
    /\ st_errors # <<>>
    /\ i = 1
    /\ Len(df.rows) = 3

\* C9: whenever the batch over N rows shows progress N/N, all N rows have
\* been rendered and saved.
C9_FullProgressAfterAllRows ==
    (InBatch /\ progress.shown /\ Len(df.rows) > 0
        /\ progress.num = Len(df.rows) /\ progress.den = Len(df.rows))
        => /\ Len(calls) = Len(df.rows)
           /\ Len(pdfs) = Len(df.rows)

\* C10: for a valid N-row table on which every render succeeds, the archive
\* has exactly N entries, one per row in table order, each named
\* {last_name}{first_name}_{subject}.pdf from its row and holding the PDF
\* rendered from that row.
C10_ArchiveOneEntryPerRow ==
    (InBatch /\ pc = "done")
        => /\ download.offered
           /\ Len(download.data) = Len(df.rows)
           /\ \A k \in 1..Len(df.rows) :
                 download.data[k] =
                    [name |-> Filename(df.rows[k]),
                     content |-> <<InputValues(df, k - 1, template_type)>>]

----------------------------------------------------------------------------
(* Properties of the temporary directory *)

BatchEnded == InBatch /\ pc \in {"failed", "zip_failed", "done"}

\* C11: the temporary storage of a batch exists only while the batch
\* runs: once the batch has ended (all rows archived, a row's render or
\* file write failed, or archiving failed) the directory is gone and so is
\* every file the batch wrote through its path, and outside a running
\* batch there is no directory.
C11_TempDirOnlyDuringBatch ==
    /\ BatchEnded => /\ ~temp_dir.exists
                     /\ temp_dir.files = {}
                     /\ temp_dir.outside = {}
    /\ temp_dir.exists => (InBatch /\ pc \in {"loop", "render", "zip"})

----------------------------------------------------------------------------
(* Properties of the template renderer *)

\* pat in text
Contains(text, pat) == Find(text, pat) # 0

\* The span of the UP suffix.
UpSpan == <<"<", "s", "p", "a", "n", " ", "c", "l", "a", "s", "s", "=",
            "\"", "u", "p", "\"", ">", "U", "P", "<", "/", "s", "p", "a",
            "n", ">">>

\* The last run of generate_pdf built its markup.
MarkupBuilt ==
    render.assets \notin {"none", "syntax_error", "css_missing", "html_missing"}

\* The record of the last run of generate_pdf.
Rendered == calls[Len(calls)]

\* C12: for every record, the final markup holds the text of its last name
\* and none of the six placeholders, whatever text its fields hold.
C12_SubstitutionLiteralAndTotal ==
    MarkupBuilt
        => /\ Contains(render.markup, PyFormat(Rendered["last_name"]))
           /\ \A f \in RequiredSet : ~Contains(render.markup, Placeholder(f))

\* C13: with the score-up template the final markup holds the two-part
\* element (the point span followed by the UP span) and the score-up CSS,
\* and no plain point markup; with the other template it holds the plain
\* point markup, no UP span and nothing of the score-up CSS.
C13_ScoreUpMarkup ==
    MarkupBuilt
        => IF IsScoreUp(Rendered)
           THEN /\ Contains(render.markup, PointUp)
                /\ Contains(render.markup, ScoreUpCss)
                /\ ~Contains(render.markup, PointPlain)
           ELSE /\ Contains(render.markup, PointPlain)
                /\ ~Contains(render.markup, UpSpan)
                /\ \A k \in 1..Len(ScoreUpCss) :
                      ~Contains(render.markup, <<ScoreUpCss[k]>>)

\* C14: when a template file is missing, an image cannot be read or the
\* renderer fails, create_pdf ends in a RuntimeError and returns no PDF,
\* and create_single_pdf shows the error and offers no download.
C14_AssetFailureSurfaces ==
    (pc = "returned" /\ render.assets \notin {"none", "ok"})
        => /\ result.op = "create_pdf"
              => (result.raised = "RuntimeError" /\ result.returned = <<>>)
           /\ result.op = "create_single_pdf"
              => (st_errors # <<>> /\ ~download.offered)

----------------------------------------------------------------------------
(* Properties of the encoding detector *)

DetectorReturned ==
    pc = "returned" /\ result.op \in {"detect_encoding", "utils_detect_encoding"}

\* C15: when the guesser gives a label, the detector returns one of utf-8,
\* shift-jis, shift_jis: the lowercase label if that is one of the three,
\* utf-8 otherwise.
C15_ReturnsAllowedEncoding ==
    (DetectorReturned /\ file_obj.kind = "label")
        => /\ result.raised = ""
           /\ result.returned[1] \in ALLOWED_ENCODINGS
           /\ result.returned[1] =
                 IF Lower(file_obj.label) \in ALLOWED_ENCODINGS
                 THEN Lower(file_obj.label) ELSE Utf8

\* C16: when the guesser raises or gives no label, the detector fails with
\* a FileProcessError carrying a message, and with nothing else; after the
\* call, successful or not, the cursor of a stream is at 0.
C16_FailsAsFileProcessError ==
    DetectorReturned
        => /\ file_obj.kind \in {"raises", "none"}
              => /\ result.raised = "FileProcessError"
                 /\ Len(result.errors) = 1
                 /\ result.errors[1].msg = "encoding_detection_failed"
           /\ file_obj.seekable => file_obj.pos = 0

----------------------------------------------------------------------------
(* Properties of the archive *)

\* C17: in the archive of a valid table on which every render succeeded,
\* no two rows share an entry name and the entry of each row holds the PDF
\* rendered from that row, also for rows of equal names and subject and
\* for names whose concatenation is the same.
C17_NoDocumentLost ==
    (InBatch /\ pc = "done" /\ download.offered)
        => /\ \A j, k \in 1..Len(download.data) :
                 j # k => download.data[j].name # download.data[k].name
           /\ \A k \in 1..Len(download.data) :
                 download.data[k].content = <<InputValues(df, k - 1, template_type)>>

====
